---- MODULE Spec2Model ----
(***************************************************************************)
(* Verification model of the go-sharding proxy core:                       *)
(*   - rewriting.NewLimitWriter       (src/rewriting/limit_writer.go)      *)
(*   - script.splitSegments / Flat    (src/proxy/server/executor_handle.go *)
(*                                     and src/core/script/                *)
(*                                     inline_expression.go)               *)
(*   - SessionExecutor.handleQuery    (src/proxy/server/executor_handle.go)*)
(*     with every arm of handleQueryWithoutPlan, taken on the type of the  *)
(*     node the parser returns; handleBegin, handleCommit and              *)
(*     handleRollback follow the design text.  A query runs in steps: to   *)
(*     the return of doQuery (or to the loop of handleSet, then one        *)
(*     assignment a step), then RecordSessionSQLMetrics and the return;    *)
(*     another goroutine may call handleSetAutoCommit at any time          *)
(*   - SessionExecutor.handleSet, one assignment a step, with another      *)
(*     goroutine taking se.txLock whenever it is free;                     *)
(*     handleSetVariable; handleSetAutoCommit (also run by two goroutines  *)
(*     under se.txLock),                                                   *)
(*     handleStmtPrepare, handleStmtClose, handleFieldList (same file)     *)
(*   - mysql.Listener, COM_PING, COM_QUERY and parseConnAttrs, from the    *)
(*     design text and src/mysql/server_test.go                            *)
(*                                                                         *)
(* Each part has its own specification; the variables of the other parts  *)
(* stay at their initial values.                                           *)
(***************************************************************************)
EXTENDS Integers, Sequences, FiniteSets, Bags, TLC

VARIABLES
    \* ---- rewriting.NewLimitWriter ----
    context,      \* explain.Context: what LimitLookup() answers
    lwPc,         \* "call" before NewLimitWriter ran, "done" after
    lwRet,        \* the pair (*ast.Limit, error) NewLimitWriter returned
    \* ---- script.NewInlineExpression / inlineExpr.Flat ----
    expression,   \* the string handed to NewInlineExpression (bytes)
    iePc,         \* "new" before parsing, "parsed", "error", "flat"
    newRet,       \* the pair (InlineExpression, error) of NewInlineExpression
    flatRet,      \* the pair ([]string, error) of Flat
    \* ---- SessionExecutor.handleQuery ----
    db,           \* se.db, the current database of the session
    forbidden,    \* calls of StatisticManager.RecordSQLForbidden so far
    metrics,      \* calls of Manager.RecordSessionSQLMetrics that returned
    trace,        \* the calls made while the last query was handled
    hqRet,        \* the named results r, err of handleQuery: what doQuery
                  \* gave while a query is handled, then what the caller got
    hqRaised,     \* the panic raised inside the last handleQuery ("" none)
    hqAllowed,    \* what Namespace.IsSQLAllowed said of the last query
    hqCount,      \* number of queries handled
    hqReq,        \* the last query and what the collaborators answered
    hqPc,         \* handleQuery: "idle", "called", "handleSet" inside
                  \* handleSet, "record" before RecordSessionSQLMetrics
    hqBefore,     \* the session when the last query began, and the calls
                  \* the other goroutine had made by then
    \* ---- SessionExecutor.handleSetVariable ----
    charset,      \* se.charset
    collation,    \* se.collation, a mysql.CollationID
    status,       \* se.status, the set of server-status bits that are on
    txConns,      \* se.txConns, the slices that have a pinned connection
    variables,    \* se.sessionVariables, name -> value
    generalLog,   \* the general-log flag of the process
    txRecycled,   \* pc.Recycle() calls on the pinned connection, by slice
    collationIds, \* the contents of the table mysql.CollationIds
    setPc,        \* number of handleSetVariable calls made
    setReq,       \* the last *ast.VariableAssignment handled
    setBefore,    \* the session when that call began
    setRet,       \* the error that call returned
    hsPc,         \* handleSet: "idle", "loop" inside its loop, "done"
    hsTodo,       \* the assignments its loop has still to handle
    hsOther,      \* calls of handleSetAutoCommit another goroutine made
    \* ---- SessionExecutor.handleStmtPrepare / handleStmtClose ----
    stmts,        \* se.stmts, id -> *Stmt
    stmtID,       \* se.stmtID, the uint32 id the next PREPARE gets
    lastID,       \* the greatest id handed out so far (NoID: none yet)
    stmtPc,       \* number of PREPARE and CLOSE commands handled
    stmtOp,       \* the last command: its kind, input and result
    stmtBefore,   \* se.stmts and se.stmtID when that command began
    \* ---- SessionExecutor.handleFieldList ----
    conns,        \* backend connections acquired: times each was handed
                  \* to recycleBackendConn
    flPc,         \* number of COM_FIELD_LIST commands handled
    flReq,        \* the last COM_FIELD_LIST and the collaborators' answers
    flRet,        \* what the last handleFieldList gave its caller
    listener,     \* the mysql Listener: shutdown flag, sessions, refusals
    wire,         \* the last step at the wire and what the client saw
    lnPc,         \* steps taken at the wire
    attrIn,       \* the connection-attribute blob handed to parseConnAttrs
    attrRet,      \* what parseConnAttrs returned
    attrPc,       \* "idle", "call" or "done"
    txLock,       \* se.txLock: "free" or the goroutine that holds it
    acPc,         \* where each goroutine is in handleSetAutoCommit
    acArg,        \* the autocommit argument of each goroutine
    acTodo,       \* the connections its range loop has still to visit
    acRet         \* the error each goroutine is about to return

lwVars == <<context, lwPc, lwRet>>

ieVars == <<expression, iePc, newRet, flatRet>>

seVars == <<db, forbidden, metrics, trace, hqRet, hqRaised, hqAllowed, hqCount,
            hqReq, hqPc, hqBefore>>

setVars == <<charset, collation, status, txConns, variables, generalLog,
             txRecycled, collationIds, setPc, setReq, setBefore, setRet,
             hsPc, hsTodo, hsOther>>

\* the position of handleSet in a SET statement
hsVars == <<hsPc, hsTodo, hsOther>>

stmtVars == <<stmts, stmtID, lastID, stmtPc, stmtOp, stmtBefore>>

flVars == <<conns, flPc, flReq, flRet>>

\* the state that only the SET, PREPARE/CLOSE and FIELD_LIST handlers and
\* the wire layer touch
lnVars == <<listener, wire, lnPc>>

caVars == <<attrIn, attrRet, attrPc>>

\* the state of the wire layer
wireVars == <<lnVars, caVars>>

acVars == <<txLock, acPc, acArg, acTodo, acRet>>

suVars == <<setVars, stmtVars, flVars, wireVars, acVars>>

vars == <<context, lwPc, lwRet, expression, iePc, newRet, flatRet,
          db, forbidden, metrics, trace, hqRet, hqRaised, hqAllowed, hqCount,
          hqReq, hqPc, hqBefore,
          charset, collation, status, txConns, variables, generalLog,
          txRecycled, collationIds, setPc, setReq, setBefore, setRet,
          hsPc, hsTodo, hsOther,
          stmts, stmtID, lastID, stmtPc, stmtOp, stmtBefore,
          conns, flPc, flReq, flRet,
          listener, wire, lnPc, attrIn, attrRet, attrPc,
          txLock, acPc, acArg, acTodo, acRet>>

(***************************************************************************)
(* int64 arithmetic.  A Go int64 is kept as its 64-bit two's complement    *)
(* pattern, four 16-bit limbs, least significant first, so that the wrap   *)
(* of an addition is the wrap the machine produces.                        *)
(***************************************************************************)
Limb == 65536

HalfLimb == 32768

\* the int64 whose value is the natural number n (n < 2^31)
I64(n) == <<n % Limb, (n \div Limb) % Limb, 0, 0>>

\* math.MaxInt64 - k, for 0 <= k < Limb
MaxInt64Minus(k) == <<(Limb - 1) - k, Limb - 1, Limb - 1, HalfLimb - 1>>

\* a + b on int64: the carries run through the limbs, the carry out of the
\* top limb is dropped (wrap modulo 2^64)
Add64(a, b) ==
    LET s1 == a[1] + b[1]
        s2 == a[2] + b[2] + (s1 \div Limb)
        s3 == a[3] + b[3] + (s2 \div Limb)
        s4 == a[4] + b[4] + (s3 \div Limb)
    IN  <<s1 % Limb, s2 % Limb, s3 % Limb, s4 % Limb>>

\* a > 0 on int64: sign bit clear and not zero
Positive64(a) == a[4] < HalfLimb /\ a # <<0, 0, 0, 0>>

(***************************************************************************)
(* Bounds of the limit-writer inputs.                                      *)
(***************************************************************************)
MaxSmall == 5

\* offsets and counts a LimitLookup can answer: small values and values
\* next to math.MaxInt64
LimitValues ==
    {I64(n) : n \in 0..MaxSmall} \cup {MaxInt64Minus(k) : k \in 0..MaxSmall}

NoLimit == <<>>

ErrNoneLimit == "there is none limit in plain context"

\* NewLimitWriter(context): returns (nil, error) or (&ast.Limit{Count: nv}, nil)
NewLimitWriter(ctx) ==
    IF ctx.HasLimit
    THEN [limit |-> NoLimit, err |-> ErrNoneLimit]
    ELSE LET newCount == IF Positive64(ctx.Offset)
                         THEN Add64(ctx.Count, ctx.Offset)
                         ELSE ctx.Count
         IN  [limit |-> <<[Count |-> newCount, Offset |-> <<>>]>>, err |-> ""]

LwInit ==
    /\ context \in [HasLimit : BOOLEAN, Offset : LimitValues, Count : LimitValues]
    /\ lwPc = "call"
    /\ lwRet = [limit |-> NoLimit, err |-> ""]

\* the limit writer at rest, for the specifications of the other parts
LwIdle ==
    /\ context = [HasLimit |-> FALSE, Offset |-> I64(0), Count |-> I64(0)]
    /\ lwPc = "idle"
    /\ lwRet = [limit |-> NoLimit, err |-> ""]

CallNewLimitWriter ==
    /\ lwPc = "call"
    /\ lwRet' = NewLimitWriter(context)
    /\ lwPc' = "done"
    /\ UNCHANGED context
    /\ UNCHANGED ieVars
    /\ UNCHANGED seVars
    /\ UNCHANGED suVars

(***************************************************************************)
(* Inline expressions.  A Go string is a sequence of bytes (0..255).       *)
(***************************************************************************)
Dollar == 36

LBrace == 123

RBrace == 125

Comma == 44

Dot == 46

MinOf(S) == CHOOSE x \in S : \A y \in S : x <= y

MaxOf(S) == CHOOSE x \in S : \A y \in S : x >= y

\* the number of bytes of the UTF-8 sequence that the byte b0 starts; 0 for
\* a byte that starts none (a continuation byte, 0xC0, 0xC1, 0xF5..0xFF)
runeLen(b0) ==
    CASE b0 < 128 -> 1
      [] b0 < 194 -> 0
      [] b0 < 224 -> 2
      [] b0 < 240 -> 3
      [] b0 < 245 -> 4
      [] OTHER    -> 0

\* the least and the greatest second byte a sequence that starts with b0
\* accepts: overlong forms, surrogates and values above U+10FFFF are refused
secondLo(b0) == IF b0 = 224 THEN 160 ELSE IF b0 = 240 THEN 144 ELSE 128

secondHi(b0) == IF b0 = 237 THEN 159 ELSE IF b0 = 244 THEN 143 ELSE 191

\* a continuation byte 10xxxxxx
isCont(b) == b >= 128 /\ b < 192

\* the rune of a well-formed sequence of n bytes at exp[k], 1-based
runeValue(exp, k, n) ==
    CASE n = 2 -> (exp[k] % 32) * 64 + (exp[k + 1] % 64)
      [] n = 3 -> (exp[k] % 16) * 4096 + (exp[k + 1] % 64) * 64
                     + (exp[k + 2] % 64)
      [] OTHER -> (exp[k] % 8) * 262144 + (exp[k + 1] % 64) * 4096
                     + (exp[k + 2] % 64) * 64 + (exp[k + 3] % 64)

\* the n bytes at exp[k] are one well-formed UTF-8 sequence
wellFormed(exp, k, n) ==
    /\ n >= 2
    /\ k + n - 1 <= Len(exp)
    /\ exp[k + 1] >= secondLo(exp[k])
    /\ exp[k + 1] <= secondHi(exp[k])
    /\ \A j \in 2..(n - 1) : isCont(exp[k + j])

\* one step of `for i, c := range exp`, and utf8.DecodeRuneInString(exp[i:]):
\* the rune that starts at the 0-based byte index i and the number of bytes
\* it takes; bytes that are no well-formed sequence decode to U+FFFD, width 1
DecodeRune(exp, i) ==
    IF exp[i + 1] < 128
    THEN [r |-> exp[i + 1], size |-> 1]
    ELSE IF wellFormed(exp, i + 1, runeLen(exp[i + 1]))
         THEN [r    |-> runeValue(exp, i + 1, runeLen(exp[i + 1])),
               size |-> runeLen(exp[i + 1])]
         ELSE [r |-> 65533, size |-> 1]

\* utf8.RuneStart(b)
RuneStart(b) == ~isCont(b)

\* the 0-based index at which utf8.DecodeLastRuneInString(s[:end]) starts to
\* decode: the last byte that starts a rune among the up to three bytes
\* before the final one, or the byte before those when there is none
lastStart(s, end) ==
    LET lim   == IF end - 4 < 0 THEN 0 ELSE end - 4
        found == {k \in lim..(end - 2) : RuneStart(s[k + 1])}
        start == IF found # {} THEN MaxOf(found) ELSE lim - 1
    IN  IF start < 0 THEN 0 ELSE start

\* utf8.DecodeLastRuneInString(s[:end]), end > 0
DecodeLastRune(s, end) ==
    IF s[end] < 128
    THEN [r |-> s[end], size |-> 1]
    ELSE LET start == lastStart(s, end)
             d     == DecodeRune(SubSeq(s, 1, end), start)
         IN  IF start + d.size # end THEN [r |-> 65533, size |-> 1] ELSE d

\* unicode.IsSpace(r)
IsSpace(r) ==
    \/ r \in {9, 10, 11, 12, 13, 32, 133, 160}
    \/ r \in {5760, 8232, 8233, 8239, 8287, 12288}
    \/ (r >= 8192 /\ r <= 8202)

RECURSIVE indexNotSpace(_, _)
\* indexFunc(s, unicode.IsSpace, false) from the byte index i on: the index
\* of the first rune that is no white space, -1 when there is none
indexNotSpace(s, i) ==
    IF i >= Len(s)
    THEN -1
    ELSE IF ~IsSpace(DecodeRune(s, i).r)
         THEN i
         ELSE indexNotSpace(s, i + DecodeRune(s, i).size)

RECURSIVE lastIndexNotSpace(_, _)
\* lastIndexFunc(s[:i], unicode.IsSpace, false): the index at which the last
\* rune that is no white space was decoded, -1 when there is none
lastIndexNotSpace(s, i) ==
    IF i <= 0
    THEN -1
    ELSE IF ~IsSpace(DecodeLastRune(s, i).r)
         THEN i - DecodeLastRune(s, i).size
         ELSE lastIndexNotSpace(s, i - DecodeLastRune(s, i).size)

\* strings.TrimLeftFunc(s, unicode.IsSpace)
TrimLeft(s) ==
    IF indexNotSpace(s, 0) = -1
    THEN <<>>
    ELSE SubSeq(s, indexNotSpace(s, 0) + 1, Len(s))

\* strings.TrimRightFunc(s, unicode.IsSpace): the string up to the end of
\* its last rune that is no white space
TrimRight(s) ==
    LET i == lastIndexNotSpace(s, Len(s))
    IN  IF i >= 0 /\ s[i + 1] >= 128
        THEN SubSeq(s, 1, i + DecodeRune(s, i).size)
        ELSE SubSeq(s, 1, i + 1)

\* strings.TrimSpace(s): the white space of Unicode is cut off at both ends
TrimSpace(s) == TrimRight(TrimLeft(s))

NoError == [message |-> "", index |-> -1]

\* the closure syntaxError(message, index) of splitSegments
syntaxError(message, index) == [message |-> message, index |-> index]

IsDigit(b) == b >= 48 /\ b <= 57

\* ParseScriptVar(trim, variables) with no variables bound: the range a..b
\* of two one-digit integers compiles, any other text is a script error
ParseScriptVar(trim) ==
    IF /\ Len(trim) = 4 /\ IsDigit(trim[1]) /\ trim[2] = Dot
       /\ trim[3] = Dot /\ IsDigit(trim[4])
    THEN [script |-> <<[lo |-> trim[1] - 48, hi |-> trim[4] - 48]>>, err |-> ""]
    ELSE [script |-> <<>>, err |-> "script compile error"]

\* inlineSegment.isBlank
isBlank(seg) == TrimSpace(seg.prefix) = <<>> /\ TrimSpace(seg.rawScript) = <<>>

\* the segment flushSegment builds from the two builders of the context
newSegment(st) ==
    [prefix    |-> TrimSpace(st.prefix),
     rawScript |-> TrimSpace(st.rawScript),
     script    |-> <<>>]

\* context.prefix.Reset(); context.rawScript.Reset()
resetBuilders(st) == [st EXCEPT !.prefix = <<>>, !.rawScript = <<>>]

\* context.segments = append(context.segments, seg), then the resets
appendSegment(st, seg) ==
    resetBuilders([st EXCEPT !.segments = Append(@, seg)])

\* flushSegment once the script of seg went through ParseScriptVar
compiledSegment(st, seg, compiled) ==
    IF compiled.err # ""
    THEN [st |-> st, err |-> compiled.err]
    ELSE [st  |-> appendSegment(st, [seg EXCEPT !.script = compiled.script]),
          err |-> ""]

\* flushSegment for the segment seg it has built
flushSegmentOf(st, seg) ==
    IF isBlank(seg)
    THEN [st |-> resetBuilders(st), err |-> ""]
    ELSE IF TrimSpace(seg.rawScript) = <<>>
         THEN [st |-> appendSegment(st, seg), err |-> ""]
         ELSE compiledSegment(st, seg, ParseScriptVar(TrimSpace(seg.rawScript)))

\* splitContext.flushSegment on the scan state st (prefix, rawScript and
\* segments are the fields of the splitContext); err is "" on success
flushSegment(st) == flushSegmentOf(st, newSegment(st))

\* flushGroup once flushSegment has answered f
flushGroupOf(f) ==
    IF f.err # ""
    THEN [st |-> f.st, g |-> <<>>, err |-> f.err]
    ELSE [st  |-> [f.st EXCEPT !.segments = <<>>],
          g   |-> <<[segments |-> f.st.segments]>>,
          err |-> ""]

\* splitContext.flushGroup: the group g and the state with segments = nil
flushGroup(st) == flushGroupOf(flushSegment(st))

\* the messages of the syntax errors of splitSegments
MsgDot == "should not appear symbol '.'"

MsgDotEnds == "should not appear symbol '.' at beginning and end of the inline expression"

MsgNoBrace == "'{' symbol is missing after the symbol '$'"

MsgDollar == "should not appear symbol '$'"

MsgRBrace == "should not appear symbol '}'"

\* the locals of splitSegments before the loop
SplitStart ==
    [i |-> 0, isScript |-> FALSE, scriptStart |-> FALSE,
     includeSplitter |-> FALSE, prefix |-> <<>>, rawScript |-> <<>>,
     segments |-> <<>>, groups |-> <<>>, err |-> NoError]

\* case '}' inside a script, after flushSegment has answered f
closeScript(f, i) ==
    IF f.err # "" THEN [f.st EXCEPT !.err = syntaxError(f.err, i)] ELSE f.st

\* case ',' outside a script, after flushGroup has answered f
closeGroup(f, i) ==
    IF f.err # ""
    THEN [f.st EXCEPT !.err = syntaxError(f.err, i)]
    ELSE [f.st EXCEPT !.groups = @ \o f.g]

\* the body of the loop for the rune d (its code point and width) found at
\* the byte index st.i
splitRune(exp, st, d) ==
    LET char   == d.r % 256
        i      == st.i
        expLen == Len(exp)
        next   == [st EXCEPT !.i = st.i + d.size]
        fail(message) == [st EXCEPT !.err = syntaxError(message, st.i)]
    IN  CASE char = Dollar ->
               IF ~st.isScript
               THEN IF i < expLen - 1 /\ exp[i + 2] = LBrace
                    THEN [next EXCEPT !.isScript = TRUE, !.scriptStart = TRUE]
                    ELSE fail(MsgNoBrace)
               ELSE fail(MsgDollar)
          [] char = LBrace ->
               IF st.isScript
               THEN IF st.scriptStart
                    THEN [next EXCEPT !.scriptStart = FALSE]
                    ELSE [next EXCEPT !.rawScript = Append(@, char)]
               ELSE [next EXCEPT !.prefix = Append(@, char)]
          [] char = Dot ->
               IF i = 0 \/ i = expLen - 1
               THEN fail(MsgDotEnds)
               ELSE IF st.isScript
                    THEN [next EXCEPT !.rawScript = Append(@, char)]
                    ELSE IF st.includeSplitter
                         THEN fail(MsgDot)
                         ELSE [next EXCEPT !.includeSplitter = TRUE,
                                           !.prefix = Append(@, char)]
          [] char = RBrace ->
               IF st.isScript
               THEN closeScript(flushSegment([next EXCEPT !.isScript = FALSE]), i)
               ELSE fail(MsgRBrace)
          [] char = Comma ->
               IF ~st.isScript
               THEN closeGroup(flushGroup(next), i)
               ELSE [next EXCEPT !.rawScript = Append(@, char)]
          [] OTHER ->
               IF st.isScript
               THEN [next EXCEPT !.rawScript = Append(@, char)]
               ELSE [next EXCEPT !.prefix = Append(@, char)]

\* the body of the loop `for i, c := range exp` for the rune at st.i
splitStep(exp, st) == splitRune(exp, st, DecodeRune(exp, st.i))

RECURSIVE splitLoop(_, _)
\* the loop of splitSegments: runs until the string is used up or an error
\* has been returned (the state after a step is computed once, as the one
\* element of a set, before the loop goes on with it)
splitLoop(exp, st) ==
    IF st.err # NoError \/ st.i >= Len(exp)
    THEN st
    ELSE CHOOSE r \in {splitLoop(exp, n) : n \in {splitStep(exp, st)}} : TRUE

\* the end of splitSegments, after the final flushGroup has answered f
finalGroup(exp, f) ==
    IF f.err # ""
    THEN [f.st EXCEPT !.err = syntaxError(f.err, Len(exp))]
    ELSE [f.st EXCEPT !.groups = @ \o f.g]

\* the end of splitSegments for the locals st the loop has left
afterLoop(exp, st) ==
    IF st.err # NoError THEN st ELSE finalGroup(exp, flushGroup(st))

\* the locals of splitSegments when it returns: after the loop the final
\* group is flushed
SplitScan(exp) == afterLoop(exp, splitLoop(exp, SplitStart))

NilGroups == <<>>

\* what splitSegments returns for its final locals
splitResult(st) ==
    IF st.err # NoError
    THEN [groups |-> NilGroups, err |-> st.err]
    ELSE [groups |-> st.groups, err |-> NoError]

\* splitSegments(exp): ([]*inlineSegmentGroup, error)
splitSegments(exp) == splitResult(SplitScan(exp))

\* NewInlineExpression once splitSegments has answered s
newExpr(e, s) ==
    IF s.err # NoError
    THEN [expr |-> <<>>, err |-> s.err]
    ELSE [expr |-> <<[expression |-> e, segments |-> s.groups]>>,
          err  |-> NoError]

\* NewInlineExpression(expression): (InlineExpression, error); a nil
\* expression is the empty tuple, an expression the 1-tuple of its struct
NewInlineExpression(e) == newExpr(e, splitSegments(e))

(***************************************************************************)
(* inlineExpr.Flat.  The compiled script, flatFill and outJoin are not     *)
(* part of the sources at hand; they follow the design text: a range a..b  *)
(* is the inclusive integer sequence, a group yields the cross product of  *)
(* prefix + script value over its segments.                                *)
(***************************************************************************)
\* strconv.Itoa for 0..9
Itoa(n) == <<48 + n>>

\* CompiledScript.ExecuteList: the decimal strings of lo..hi
ExecuteList(script) ==
    [list |-> [k \in 1..(script.hi - script.lo + 1) |-> Itoa(script.lo + k - 1)],
     err  |-> ""]

\* flatFill(prefix, list): prefix + v for every v of list
flatFill(prefix, list) == [k \in 1..Len(list) |-> prefix \o list[k]]

\* outJoin(current, list): every string of current followed by every string
\* of list, current-major; list itself when current is empty
outJoin(current, list) ==
    IF Len(current) = 0
    THEN list
    ELSE [k \in 1..(Len(current) * Len(list)) |->
             current[((k - 1) \div Len(list)) + 1]
                 \o list[((k - 1) % Len(list)) + 1]]

RECURSIVE flatSegmentsNoJoin(_, _, _)
\* the mutant of flatSegments: the strings of a scripted segment replace
\* what the earlier segments produced instead of being joined onto it
flatSegmentsNoJoin(segs, k, current) ==
    IF k > Len(segs)
    THEN [current |-> current, err |-> ""]
    ELSE LET s == segs[k]
             e == ExecuteList(s.script[1])
         IN  IF s.script # <<>>
             THEN IF e.err # ""
                  THEN [current |-> <<>>, err |-> e.err]
                  ELSE CHOOSE r \in {flatSegmentsNoJoin(segs, k + 1, c) :
                                         c \in {flatFill(s.prefix, e.list)}} : TRUE
             ELSE IF s.prefix # <<>>
                  THEN CHOOSE r \in {flatSegmentsNoJoin(segs, k + 1, c) :
                                         c \in {Append(current, s.prefix)}} : TRUE
                  ELSE flatSegmentsNoJoin(segs, k + 1, current)

RECURSIVE flatSegments(_, _, _)
\* the inner loop of Flat, `for _, s := range g.segments`, from segment k on
\* (the new value of current is computed once, as the one element of a set)
flatSegments(segs, k, current) ==
    IF k > Len(segs)
    THEN [current |-> current, err |-> ""]
    ELSE LET s == segs[k]
             e == ExecuteList(s.script[1])
         IN  IF s.script # <<>>
             THEN IF e.err # ""
                  THEN [current |-> <<>>, err |-> e.err]
                  ELSE CHOOSE r \in {flatSegments(segs, k + 1, c) :
                           c \in {outJoin(current, flatFill(s.prefix, e.list))}} : TRUE
             ELSE IF s.prefix # <<>>
                  THEN CHOOSE r \in {flatSegments(segs, k + 1, c) :
                                         c \in {Append(current, s.prefix)}} : TRUE
                  ELSE flatSegments(segs, k + 1, current)

Range(f) == {f[k] : k \in DOMAIN f}

RECURSIVE flatGroups(_, _, _)
\* the outer loop of Flat, `for _, g := range i.segments`, from group k on;
\* set is the map[string]struct{} of the strings seen so far
flatGroups(groups, k, set) ==
    IF k > Len(groups)
    THEN [set |-> set, err |-> ""]
    ELSE LET c == flatSegments(groups[k].segments, 1, <<>>)
         IN  IF c.err # ""
             THEN [set |-> {}, err |-> c.err]
             ELSE CHOOSE r \in {flatGroups(groups, k + 1, n) :
                                    n \in {set \cup Range(c.current)}} : TRUE

RECURSIVE flatGroupsNoSet(_, _, _)
\* the mutant of Flat's loop: the strings of every group are appended to the
\* result list directly, without the map that collapses duplicates
flatGroupsNoSet(groups, k, list) ==
    IF k > Len(groups)
    THEN [list |-> list, err |-> ""]
    ELSE LET c == flatSegments(groups[k].segments, 1, <<>>)
             b == [x \in Range(c.current) |->
                      Cardinality({j \in DOMAIN c.current : c.current[j] = x})]
         IN  IF c.err # ""
             THEN [list |-> EmptyBag, err |-> c.err]
             ELSE CHOOSE r \in {flatGroupsNoSet(groups, k + 1, n) :
                                    n \in {list (+) b}} : TRUE

\* the mutant of Flat
FlatNoSet(expr) == flatGroupsNoSet(expr.segments, 1, EmptyBag)

\* inlineExpr.Flat(): ([]string, error).  The list is filled by ranging over
\* a Go map, whose order is unspecified: the list is kept as the bag of its
\* elements.
Flat(expr) ==
    LET r == flatGroups(expr.segments, 1, {})
    IN  IF r.err # ""
        THEN [list |-> EmptyBag, err |-> r.err]
        ELSE [list |-> SetToBag(r.set), err |-> ""]

(***************************************************************************)
(* The expressions the model parses: up to MaxTokens pieces, each a        *)
(* literal (ASCII or not), a symbol of the syntax, or a script fragment.    *)
(***************************************************************************)
MaxTokens == 3

Tokens ==
    { <<116, 95>>,                            \* t_
      <<100, 46, 116>>,                       \* d.t
      <<32>>,                                 \* a space
      <<195, 169>>,                           \* U+00E9, e with acute
      <<196, 164>>,                           \* U+0124, low 8 bits those of $
      <<196, 172>>,                           \* U+012C, low 8 bits those of ,
      <<195, 130>>,                           \* U+00C2, kept as the byte 0xC2
      <<194, 160>>,                           \* U+00A0, kept as the byte 0xA0
      <<224, 160, 164>>,                      \* U+0824, low 8 bits those of $
      <<226, 128, 160>>,                      \* U+2020, low 8 bits a space
      <<240, 159, 152, 128>>,                 \* U+1F600, low 8 bits zero
      <<Dot>>, <<Comma>>, <<Dollar>>, <<LBrace>>, <<RBrace>>,
      <<Dollar, LBrace, 48, Dot, Dot, 49, RBrace>>,   \* ${0..1}
      <<Dollar, LBrace, 48, Dot, Dot, 51, RBrace>>,   \* ${0..3}
      <<Dollar, LBrace, 49, Dot, Dot, 50>> }          \* ${1..2  (not closed)

RECURSIVE Expressions(_)
\* the strings made of at most n tokens
Expressions(n) ==
    IF n = 0
    THEN {<<>>}
    ELSE LET shorter == Expressions(n - 1)
         IN  shorter \cup {e \o t : e \in shorter, t \in Tokens}

NoFlat == [list |-> EmptyBag, err |-> ""]

NoExpr == [expr |-> <<>>, err |-> NoError]

IeInit ==
    /\ expression \in Expressions(MaxTokens)
    /\ iePc = "new"
    /\ newRet = NoExpr
    /\ flatRet = NoFlat

\* the inline-expression engine at rest, for the other specifications
IeIdle ==
    /\ expression = <<>>
    /\ iePc = "idle"
    /\ newRet = NoExpr
    /\ flatRet = NoFlat

CallNewInlineExpression ==
    /\ iePc = "new"
    /\ newRet' = NewInlineExpression(expression)
    /\ iePc' = IF newRet'.err # NoError THEN "error" ELSE "parsed"
    /\ UNCHANGED <<expression, flatRet>>
    /\ UNCHANGED lwVars
    /\ UNCHANGED seVars
    /\ UNCHANGED suVars

CallFlat ==
    /\ iePc = "parsed"
    /\ flatRet' = Flat(newRet.expr[1])
    /\ iePc' = "flat"
    /\ UNCHANGED <<expression, newRet>>
    /\ UNCHANGED lwVars
    /\ UNCHANGED seVars
    /\ UNCHANGED suVars

(***************************************************************************)
(* SessionExecutor.handleQuery.                                            *)
(*                                                                         *)
(* A Go error is a record (kind, code, msg), kind "nil" for no error.  A   *)
(* *mysql.Result is the empty tuple for nil, or the 1-tuple of its record. *)
(* A call returns an outcome: the session after the call, the values       *)
(* returned, and the panic that is unwinding through it ("" for none).     *)
(***************************************************************************)
NilErr == [kind |-> "nil", code |-> "", msg |-> ""]

\* errors.ErrInternalServer
ErrInternalServer == [kind |-> "ErrInternalServer", code |-> "", msg |-> ""]

\* errors.ErrCmdUnsupport
ErrCmdUnsupport == [kind |-> "ErrCmdUnsupport", code |-> "", msg |-> ""]

\* mysql.NewError(code, msg) and mysql.NewDefaultError(code)
MySQLError(code, msg) == [kind |-> "mysql", code |-> code, msg |-> msg]

\* fmt.Errorf(msg, ...)
Errorf(msg) == [kind |-> "fmt", code |-> "", msg |-> msg]

NilResult == <<>>

\* a result that came from source `from`
ResultOf(from) == <<[from |-> from]>>

NoPanic == ""

\* the databases Namespace.IsAllowedDB accepts
AllowedDBs == {"db1", "db2"}

Outcome(st, r, err, p) == [st |-> st, r |-> r, err |-> err, panic |-> p]

\* the call `name` is recorded in the trace of the running query
Called(st, name) == [st EXCEPT !.trace = Append(@, name)]

\* a call to the backend or to a collaborator that answers `how`:
\* "ok" (a result), "err" (an error) or a panic value
Answer(st, how, from, err) ==
    CASE how = "ok"  -> Outcome(st, ResultOf(from), NilErr, NoPanic)
      [] how = "err" -> Outcome(st, NilResult, err, NoPanic)
      [] OTHER       -> Outcome(st, NilResult, NilErr, how)

\* a MySQL error sent by a backend
BackendError == MySQLError("ER_NO_SUCH_TABLE", "42S02")

\* the mutant of handleUseDB: se.db is assigned before the namespace is asked
handleUseDBUnchecked(st, dbName) ==
    IF dbName = ""
    THEN Outcome(st, NilResult,
                 Errorf("must have database, the length of dbName is zero"), NoPanic)
    ELSE IF dbName \in AllowedDBs
         THEN Outcome([st EXCEPT !.db = dbName], NilResult, NilErr, NoPanic)
         ELSE Outcome([st EXCEPT !.db = dbName], NilResult,
                      MySQLError("ErrNoDB", ""), NoPanic)

\* SessionExecutor.handleUseDB(dbName)
handleUseDB(st, dbName) ==
    IF dbName = ""
    THEN Outcome(st, NilResult,
                 Errorf("must have database, the length of dbName is zero"), NoPanic)
    ELSE IF dbName \in AllowedDBs
         THEN Outcome([st EXCEPT !.db = dbName], NilResult, NilErr, NoPanic)
         ELSE Outcome(st, NilResult, MySQLError("ErrNoDB", ""), NoPanic)

\* SessionExecutor.handleShow(reqCtx, sql, stmt, node)
handleShow(st, req) ==
    LET wrap(o) == IF o.panic = NoPanic /\ o.err # NilErr
                   THEN [o EXCEPT !.r = NilResult,
                                  !.err = Errorf("execute parser error")]
                   ELSE o
    IN  CASE req.showTp = "ShowDatabases" ->
               Outcome(st, ResultOf("createShowDatabaseResult"), NilErr, NoPanic)
          [] req.showTp \in {"ShowTables", "ShowColumns", "ShowIndex",
                             "ShowTriggers", "ShowCreateTable"} ->
               wrap(Answer(Called(st, "ExecuteSQL"), req.backend,
                           "ExecuteSQL", BackendError))
          [] req.showTp = "ShowStatus" ->
               wrap(Answer(Called(st, "executeSQLNoData"), req.backend,
                           "executeSQLNoData", BackendError))
          [] req.showTp = "ShowVariables" /\ req.generalLog ->
               Outcome(st, ResultOf("createShowGeneralLogResult"), NilErr, NoPanic)
          [] OTHER ->
               wrap(Answer(Called(st, "ExecuteSQL"), req.backend,
                           "ExecuteSQL", BackendError))

(***************************************************************************)
(* SessionExecutor.handleSetVariable and handleSetAutoCommit.              *)
(*                                                                         *)
(* The session is the record (db, charset, collation, status, txConns,     *)
(* variables, generalLog, txRecycled).  An *ast.VariableAssignment is the  *)
(* record (IsGlobal, Name, Value, ExtendValue): Value is the expression as *)
(* written, ExtendValue the empty tuple for nil or the 1-tuple of the      *)
(* COLLATE expression.  failing is the set of slices whose pinned          *)
(* connection answers SetAutoCommit with an error.                         *)
(***************************************************************************)
\* mysql.KeywordDefault
KeywordDefault == "default"

ServerStatusInTrans == "ServerStatusInTrans"

ServerStatusAutocommit == "ServerStatusAutocommit"

\* mysql.CharsetsToCollationNames: the default collation of a charset
CharsetsToCollationNames ==
    ("utf8" :> "utf8_general_ci") @@ ("utf8mb4" :> "utf8mb4_general_ci")

\* the collation ids of the build
AllCollationIds ==
    ("utf8_general_ci" :> 33) @@ ("utf8_bin" :> 83)
       @@ ("utf8mb4_general_ci" :> 45) @@ ("utf8mb4_bin" :> 46)

\* the table without its entry for name
Without(table, name) == [n \in DOMAIN table \ {name} |-> table[n]]

\* the contents mysql.CollationIds can have: every collation, or every
\* collation but the default one of utf8mb4
CollationTables ==
    {AllCollationIds, Without(AllCollationIds, "utf8mb4_general_ci")}

\* mysql.CollationIds
CollationIds == collationIds

\* m[key] on a Go map: the zero value when the key is missing
Lookup(m, key) == IF key \in DOMAIN m THEN m[key] ELSE 0

\* mysql.CollationNameToCharset
CollationNameToCharset ==
    ("utf8_general_ci" :> "utf8") @@ ("utf8_bin" :> "utf8")
       @@ ("utf8mb4_general_ci" :> "utf8mb4") @@ ("utf8mb4_bin" :> "utf8mb4")

\* Namespace.GetDefaultCharset()
DefaultCharset == "utf8"

\* Namespace.GetDefaultCollationID()
DefaultCollationID == CollationIds["utf8_bin"]

\* gaeaGeneralLogVariable
gaeaGeneralLogVariable == "general_log"

\* the upper-case letters of the names and values a client sends here
Lower ==
    ("AutoCommit" :> "autocommit") @@ ("SetNAMES" :> "setnames")
       @@ ("Wait_Timeout" :> "wait_timeout") @@ ("ON" :> "on")
       @@ ("UTF8" :> "utf8") @@ ("DEFAULT" :> "default")
       @@ ("NULL" :> "null") @@ ("UTF8_BIN" :> "utf8_bin")

\* strings.ToLower(s)
ToLower(s) == IF s \in DOMAIN Lower THEN Lower[s] ELSE s

\* getVariableExprResult(v): the expression restored as text, in lower case
getVariableExprResult(e) == ToLower(e)

\* getOnOffVariable(v): (value, ok)
getOnOffVariable(value) ==
    CASE value \in {"1", "on"}  -> [v |-> 1, ok |-> TRUE]
      [] value \in {"0", "off"} -> [v |-> 0, ok |-> TRUE]
      [] OTHER                  -> [v |-> 0, ok |-> FALSE]

\* setStringSessionVariable / setIntSessionVariable(name, value)
setSessionVariable(st, name, value) ==
    Outcome([st EXCEPT !.variables[name] = value], NilResult, NilErr, NoPanic)

\* setGeneralLogVariable(onOffValue)
setGeneralLogVariable(st, onOffValue) ==
    Outcome([st EXCEPT !.generalLog = onOffValue], NilResult, NilErr, NoPanic)

\* the slices of the namespace
Slices == {"slice-0", "slice-1"}

\* the session leaves with error err, nothing else returned
Fail(st, err) == Outcome(st, NilResult, err, NoPanic)

\* the session leaves with a nil error
Done(st) == Outcome(st, NilResult, NilErr, NoPanic)

\* the mutant of handleSetAutoCommit: a pinned connection whose
\* SetAutoCommit(1) failed is skipped and not given back
handleSetAutoCommitSkipFailed(st, autocommit, failing) ==
    IF autocommit
    THEN Fail([st EXCEPT !.status = (@ \cup {ServerStatusAutocommit})
                                       \ {ServerStatusInTrans},
                         !.txRecycled =
                            [s \in Slices |->
                               IF s \in st.txConns \ failing
                               THEN @[s] + 1 ELSE @[s]],
                         !.txConns = {}],
              IF st.txConns \cap failing # {}
              THEN Errorf("set autocommit error")
              ELSE NilErr)
    ELSE Done([st EXCEPT !.status = @ \ {ServerStatusAutocommit}])

\* SessionExecutor.handleSetAutoCommit(autocommit); txRecycled counts the
\* pc.Recycle() calls on the pinned connection of each slice
handleSetAutoCommit(st, autocommit, failing) ==
    IF autocommit
    THEN Fail([st EXCEPT !.status = (@ \cup {ServerStatusAutocommit})
                                       \ {ServerStatusInTrans},
                         !.txRecycled =
                            [s \in Slices |->
                               IF s \in st.txConns THEN @[s] + 1 ELSE @[s]],
                         !.txConns = {}],
              IF st.txConns \cap failing # {}
              THEN Errorf("set autocommit error")
              ELSE NilErr)
    ELSE Done([st EXCEPT !.status = @ \ {ServerStatusAutocommit}])

\* case "character_set_results", "character_set_client",
\* "character_set_connection"
setCharacterSet(st, cs) ==
    CASE cs = "null" -> Done(st)
      [] cs = KeywordDefault ->
           Done([st EXCEPT !.charset = DefaultCharset,
                           !.collation = DefaultCollationID])
      [] cs \notin DOMAIN CharsetsToCollationNames ->
           Fail(st, MySQLError("ErrUnknownCharacterSet", cs))
      [] OTHER ->
           Done([st EXCEPT !.charset = cs,
                           !.collation =
                              Lookup(CollationIds, CharsetsToCollationNames[cs])])

\* the mutant of setAutocommit: the keyword DEFAULT is not a value
setAutocommitNoDefault(st, name, value, failing) ==
    CASE value \in {"on", "1"} -> handleSetAutoCommit(st, TRUE, failing)
      [] value \in {"off", "0"} -> handleSetAutoCommit(st, FALSE, failing)
      [] OTHER -> Fail(st, MySQLError("ErrWrongValueForVar", value))

\* case "autocommit"
setAutocommit(st, name, value, failing) ==
    CASE value \in {KeywordDefault, "on", "1"} ->
           handleSetAutoCommit(st, TRUE, failing)
      [] value \in {"off", "0"} -> handleSetAutoCommit(st, FALSE, failing)
      [] OTHER -> Fail(st, MySQLError("ErrWrongValueForVar", value))

\* SET NAMES with COLLATE: the collation id, or the error
namesCollate(cs, collationName) ==
    CASE collationName \notin DOMAIN CollationIds ->
           [ok |-> FALSE, id |-> 0]
      [] collationName \notin DOMAIN CollationNameToCharset ->
           [ok |-> FALSE, id |-> 0]
      [] CollationNameToCharset[collationName] # cs ->
           [ok |-> FALSE, id |-> 0]
      [] OTHER -> [ok |-> TRUE, id |-> CollationIds[collationName]]

\* SET NAMES without COLLATE: the default collation of the charset
namesDefault(cs) ==
    IF cs \in DOMAIN CharsetsToCollationNames
          /\ CharsetsToCollationNames[cs] \in DOMAIN CollationIds
    THEN [ok |-> TRUE, id |-> CollationIds[CharsetsToCollationNames[cs]]]
    ELSE [ok |-> FALSE, id |-> 0]

\* the collation SET NAMES cs [COLLATE extend] selects
namesCollation(cs, extend) ==
    IF extend # <<>>
    THEN namesCollate(cs, getVariableExprResult(extend[1]))
    ELSE namesDefault(cs)

\* the charset SET NAMES value names
namesCharset(value) ==
    IF value = KeywordDefault THEN DefaultCharset ELSE value

\* the mutant of setNamesTo: se.charset is assigned before the collation is
\* looked up
setNamesCharsetFirst(st, cs, col) ==
    IF ~col.ok
    THEN Fail([st EXCEPT !.charset = cs],
              MySQLError("ErrUnknownCharacterSet", cs))
    ELSE Done([st EXCEPT !.charset = cs, !.collation = col.id])

\* case "setnames", once charset and collation have been looked up
setNamesTo(st, cs, col) ==
    IF ~col.ok
    THEN Fail(st, MySQLError("ErrUnknownCharacterSet", cs))
    ELSE Done([st EXCEPT !.charset = cs, !.collation = col.id])

\* case "setnames"
setNames(st, value, extend) ==
    setNamesTo(st, namesCharset(value),
               namesCollation(namesCharset(value), extend))

\* case "sql_safe_updates" and case gaeaGeneralLogVariable: the value is
\* read as on or off
setOnOff(st, name, value, onOff) ==
    IF ~onOff.ok
    THEN Fail(st, MySQLError("ErrWrongValueForVar", value))
    ELSE IF name = gaeaGeneralLogVariable
         THEN setGeneralLogVariable(st, onOff.v)
         ELSE setSessionVariable(st, name, onOff.v)

\* the mutant of setNoOp: a variable the session does not know is refused
setNoOpRefused(st) == Fail(st, MySQLError("ErrUnknownSystemVariable", ""))

\* case "wait_timeout", ..., case "sql_select_limit" and default: return nil
setNoOp(st) == Done(st)

\* the switch of handleSetVariable on the lower-cased name
setVariable(st, name, value, extend, failing) ==
    CASE name \in {"character_set_results", "character_set_client",
                   "character_set_connection"} ->
           setCharacterSet(st, value)
      [] name = "autocommit" -> setAutocommit(st, name, value, failing)
      [] name = "setnames" -> setNames(st, value, extend)
      [] name = "sql_mode" -> setSessionVariable(st, name, value)
      [] name = "sql_safe_updates" ->
           setOnOff(st, name, value, getOnOffVariable(value))
      [] name = "time_zone" -> setSessionVariable(st, name, value)
      [] name = "max_allowed_packet" ->
           Fail(st, MySQLError("ErrVariableIsReadonly", "max_allowed_packet"))
      [] name \in {"wait_timeout", "interactive_timeout", "net_write_timeout",
                   "net_read_timeout"} -> setNoOp(st)
      [] name = "sql_select_limit" -> setNoOp(st)
      [] name = "transaction" ->
           Fail(st, Errorf("does not support set transaction in gaea"))
      [] name = gaeaGeneralLogVariable ->
           setOnOff(st, name, value, getOnOffVariable(value))
      [] OTHER -> setNoOp(st)

\* the mutant of handleSetVariable: the scope is not looked at
handleSetVariableAnyScope(st, v, failing) ==
    setVariable(st, ToLower(v.Name), getVariableExprResult(v.Value),
                v.ExtendValue, failing)

\* SessionExecutor.handleSetVariable(v)
handleSetVariable(st, v, failing) ==
    IF v.IsGlobal
    THEN Fail(st, Errorf("does not support set variable in global scope"))
    ELSE setVariable(st, ToLower(v.Name), getVariableExprResult(v.Value),
                     v.ExtendValue, failing)

RECURSIVE handleSetFrom(_, _, _, _)
\* the loop of handleSet from stmt.Variables[i] on, o being what the
\* assignment before gave: the first error ends the loop
handleSetFrom(o, vs, i, failing) ==
    IF o.err # NilErr \/ i > Len(vs)
    THEN o
    ELSE handleSetFrom(handleSetVariable(o.st, vs[i], failing), vs, i + 1,
                       failing)

\* SessionExecutor.handleSet(reqCtx, sql, stmt), vs being stmt.Variables
handleSet(st, vs, failing) == handleSetFrom(Done(st), vs, 1, failing)

(***************************************************************************)
(* The assignments of the SET statements a client sends, and the session   *)
(* states a SET can meet.                                                  *)
(***************************************************************************)
MaxSets == 2

Assign(g, n, val, ext) ==
    [IsGlobal |-> g, Name |-> n, Value |-> val, ExtendValue |-> ext]

\* variable = value pairs without COLLATE
PlainAssignments ==
    ({"character_set_results", "character_set_client",
      "character_set_connection"}
        \X {"NULL", "DEFAULT", "utf8", "UTF8", "utf8mb4", "latin9"})
    \cup ({"autocommit", "AutoCommit"}
            \X {"DEFAULT", "on", "ON", "1", "off", "0", "2", "NULL"})
    \cup ({"sql_safe_updates", "general_log"} \X {"on", "0", "2"})
    \cup {<<"sql_mode", "ansi">>, <<"time_zone", "+08:00">>,
          <<"max_allowed_packet", "1024">>, <<"transaction", "1">>}
    \cup ({"wait_timeout", "Wait_Timeout", "interactive_timeout",
           "net_write_timeout", "net_read_timeout", "sql_select_limit",
           "foreign_key_checks", "profiling"} \X {"1"})

\* SET NAMES value [COLLATE extend]
NamesAssignments ==
    {"DEFAULT", "utf8", "utf8mb4", "latin9"}
       \X {<<>>, <<"utf8_bin">>, <<"UTF8_BIN">>, <<"utf8mb4_general_ci">>,
           <<"klingon_ci">>}

Assignments ==
    {Assign(g, a[1], a[2], <<>>) : g \in BOOLEAN, a \in PlainAssignments}
       \cup {Assign(g, "SetNAMES", a[1], a[2]) :
                g \in BOOLEAN, a \in NamesAssignments}

\* the assignment makes handleSetAutoCommit(true) run
TurnsAutocommitOn(v) ==
    /\ ~v.IsGlobal
    /\ ToLower(v.Name) = "autocommit"
    /\ getVariableExprResult(v.Value) \in {KeywordDefault, "on", "1"}

\* se.sessionVariables of a new session
NoVariables == [sql_mode |-> "", sql_safe_updates |-> 0, time_zone |-> ""]

\* no SET has been handled yet
NoAssignment == [v |-> Assign(FALSE, "", "", <<>>), failing |-> {}]

\* a pinned connection exists only while the session is in a transaction
InTransaction(st, tx) ==
    tx # {} => (ServerStatusInTrans \in st \/ ServerStatusAutocommit \notin st)

\* no SET statement is being handled
HsIdle ==
    /\ hsPc = "idle"
    /\ hsTodo = <<>>
    /\ hsOther = 0

\* the session as handleSetVariable and handleSetAutoCommit take it
SetSession ==
    [db |-> db, charset |-> charset, collation |-> collation,
     status |-> status, txConns |-> txConns, variables |-> variables,
     generalLog |-> generalLog, txRecycled |-> txRecycled]

\* the session, the counters of the statistic manager and the calls of the
\* running query, as the handlers take them
Session ==
    [db |-> db, forbidden |-> forbidden, metrics |-> metrics, trace |-> trace,
     charset |-> charset, collation |-> collation, status |-> status,
     txConns |-> txConns, variables |-> variables, generalLog |-> generalLog,
     txRecycled |-> txRecycled]

SetIdle ==
    /\ collationIds = AllCollationIds
    /\ charset = DefaultCharset
    /\ collation = DefaultCollationID
    /\ status = {ServerStatusAutocommit}
    /\ txConns = {}
    /\ variables = NoVariables
    /\ generalLog = 0
    /\ txRecycled = [s \in Slices |-> 0]
    /\ setPc = 0
    /\ setReq = NoAssignment
    /\ setRet = NilErr
    /\ setBefore = SetSession
    /\ HsIdle

\* the sessions a SET can meet when mysql.CollationIds is one of tables:
\* any charset with one of its collations, inside or outside a transaction
SetSessions(tables) ==
    /\ collationIds \in tables
    /\ charset \in {"utf8", "utf8mb4"}
    /\ collation \in {CollationIds[c] : c \in {n \in DOMAIN CollationIds :
                                                 CollationNameToCharset[n] = charset}}
    /\ status \in SUBSET {ServerStatusAutocommit, ServerStatusInTrans}
    /\ txConns \in SUBSET Slices
    /\ InTransaction(status, txConns)
    /\ variables = NoVariables
    /\ generalLog = 0
    /\ txRecycled = [s \in Slices |-> 0]
    /\ setPc = 0
    /\ setReq = NoAssignment
    /\ setRet = NilErr
    /\ setBefore = SetSession
    /\ HsIdle

\* the sessions of a build whose table of collation ids is complete
SetInit == SetSessions({AllCollationIds})

\* the sessions of any build, one whose table lacks a default collation
\* included
SetTablesInit == SetSessions(CollationTables)

\* the session and the caller after handleSetVariable gave the outcome o
SetReturned(o) ==
    /\ db' = o.st.db
    /\ charset' = o.st.charset
    /\ collation' = o.st.collation
    /\ status' = o.st.status
    /\ txConns' = o.st.txConns
    /\ variables' = o.st.variables
    /\ generalLog' = o.st.generalLog
    /\ txRecycled' = o.st.txRecycled
    /\ setRet' = o.err

\* handleSet hands one assignment of a SET statement to handleSetVariable
HandleSetVariable ==
    /\ setPc < MaxSets
    /\ \E v \in Assignments, failing \in SUBSET txConns :
          /\ failing # {} => TurnsAutocommitOn(v)
          /\ SetReturned(handleSetVariable(SetSession, v, failing))
          /\ setReq' = [v |-> v, failing |-> failing]
          /\ setBefore' = SetSession
    /\ setPc' = setPc + 1
    /\ UNCHANGED collationIds
    /\ UNCHANGED hsVars
    /\ UNCHANGED <<forbidden, metrics, trace, hqRet, hqRaised, hqAllowed,
                   hqCount, hqReq, hqPc, hqBefore>>
    /\ UNCHANGED lwVars
    /\ UNCHANGED ieVars
    /\ UNCHANGED stmtVars
    /\ UNCHANGED flVars
    /\ UNCHANGED wireVars
    /\ UNCHANGED acVars

(***************************************************************************)
(* SessionExecutor.handleQuery, doQuery and handleQueryWithoutPlan.        *)
(***************************************************************************)
\* the mutant of unparsedShow: the error of the backend is returned as it
\* came
unparsedShowKeepsError(noData) == noData

\* the SHOW that Parse refused, after executeSQLNoData has answered noData
unparsedShow(noData) ==
    IF noData.panic # NoPanic \/ noData.err = NilErr
    THEN noData
    ELSE Outcome(noData.st, NilResult, ErrCmdUnsupport, NoPanic)

\* the error of a COMMIT or ROLLBACK that failed on a pinned connection
ErrTxPartial == [kind |-> "ErrTxPartial", code |-> "", msg |-> ""]

\* SessionExecutor.handleBegin(), after the design text: the in-transaction
\* bit is set, the autocommit bit cleared, txConns empty
handleBegin(st) ==
    Done([st EXCEPT !.status = (@ \cup {ServerStatusInTrans})
                                  \ {ServerStatusAutocommit},
                    !.txConns = {}])

\* the end of a transaction, after the design text: the statement goes to
\* every pinned connection, each is given back to its pool whatever it
\* answered, any failure gives ErrTxPartial, the session is idle again
endTransaction(st, failing) ==
    Fail([st EXCEPT !.status = @ \ {ServerStatusInTrans},
                    !.txRecycled =
                       [s \in Slices |->
                          IF s \in st.txConns THEN @[s] + 1 ELSE @[s]],
                    !.txConns = {}],
         IF st.txConns \cap failing # {} THEN ErrTxPartial ELSE NilErr)

\* SessionExecutor.handleCommit()
handleCommit(st, failing) == endTransaction(st, failing)

\* SessionExecutor.handleRollback()
handleRollback(st, failing) == endTransaction(st, failing)

\* the switch of handleQueryWithoutPlan on the dynamic type of the node
\* the parser returned
typeSwitch(parsed, req) ==
    CASE req.node = "*ast.ShowStmt" ->
           handleShow(Called(parsed, "handleShow"), req)
      [] req.node = "*ast.SetStmt" ->
           handleSet(Called(parsed, "handleSet"), req.vs, req.failing)
      [] req.node = "*ast.BeginStmt" ->
           handleBegin(Called(parsed, "handleBegin"))
      [] req.node = "*ast.CommitStmt" ->
           handleCommit(Called(parsed, "handleCommit"), req.failing)
      [] req.node = "*ast.RollbackStmt" ->
           handleRollback(Called(parsed, "handleRollback"), req.failing)
      [] req.node = "*ast.UseStmt" ->
           handleUseDB(Called(parsed, "handleUseDB"), req.dbName)
      [] OTHER ->
           Outcome(parsed, NilResult,
                   Errorf("cannot handle parser without plan"), NoPanic)

\* handleQueryWithoutPlan after se.Parse(sql) was called (session `parsed`)
afterParse(parsed, req) ==
    IF ~req.parses
    THEN IF req.stmtType = "StmtShow"
         THEN unparsedShow(Answer(Called(parsed, "executeSQLNoData"), req.backend,
                                  "executeSQLNoData", BackendError))
         ELSE Outcome(parsed, NilResult, ErrCmdUnsupport, NoPanic)
    ELSE typeSwitch(parsed, req)

\* SessionExecutor.handleQueryWithoutPlan(reqCtx, sql)
handleQueryWithoutPlan(st, req) == afterParse(Called(st, "Parse"), req)

\* isSQLNotAllowedByUser(se, stmtType): a write statement of a read-only user
isSQLNotAllowedByUser(req) == req.readUser /\ req.stmtType = "StmtInsert"

\* StatementType.CanHandleWithoutPlan: USE, SET, transaction control, SHOW
CanHandleWithoutPlan(stmtType) ==
    stmtType \in {"StmtShow", "StmtUse", "StmtSet", "StmtBegin", "StmtCommit",
                  "StmtRollback"}

\* getPlan after se.Parse(sql) was called (session `parsed`)
planParsed(parsed, req) ==
    IF ~req.parses
    THEN Outcome(parsed, NilResult, Errorf("parse parser error"), NoPanic)
    ELSE Answer(Called(parsed, "BuildPlan"), req.plan, "plan",
                Errorf("create select plan error"))

\* SessionExecutor.getPlan(ns, db, sql)
getPlan(st, req) == planParsed(Called(st, "Parse"), req)

\* doQuery after getPlan has answered p
executePlan(p, req) ==
    IF p.panic # NoPanic
    THEN p
    ELSE IF p.err # NilErr
         THEN Outcome(p.st, NilResult, Errorf("get plan error"), NoPanic)
         ELSE Answer(Called(p.st, "ExecuteIn"), req.backend, "ExecuteIn",
                     BackendError)

\* SessionExecutor.doQuery(reqCtx, sql)
doQuery(st, req) ==
    IF isSQLNotAllowedByUser(req)
    THEN Outcome(st, NilResult,
                 Errorf("write DML is now allowed by read user"), NoPanic)
    ELSE IF CanHandleWithoutPlan(req.stmtType)
         THEN handleQueryWithoutPlan(st, req)
         ELSE executePlan(getPlan(st, req), req)

\* handleQuery leaves its body with the outcome o: a return statement was
\* reached, or a panic unwinds
AtReturn(o) == [pc |-> "return", o |-> o]

\* handleQuery stands before RecordSessionSQLMetrics (line 79); o holds the
\* session and the named results r, err
AtRecord(o) == [pc |-> "record", o |-> o]

\* r, err = se.doQuery(reqCtx, sql), doQuery having answered q: a panic
\* unwinds with the named results unset, otherwise they are assigned
afterDoQuery(q) ==
    IF q.panic # NoPanic
    THEN AtReturn(Outcome(q.st, NilResult, NilErr, q.panic))
    ELSE AtRecord(q)

\* the mutant of checkedQuery: the blacklist branch counts the query but
\* does not return, the query goes on to doQuery
checkedQueryNoReturn(st, req) ==
    CASE req.allowed = "no" ->
           afterDoQuery(doQuery([st EXCEPT !.forbidden = @ + 1], req))
      [] req.allowed \notin {"yes", "no"} ->
           AtReturn(Outcome(st, NilResult, NilErr, req.allowed))
      [] OTHER ->
           afterDoQuery(doQuery(st, req))

\* handleQuery from the blacklist check to the return of doQuery, for the
\* session st in which no call of this query has been made yet
checkedQuery(st, req) ==
    CASE req.allowed = "no" ->
           AtReturn(Outcome([st EXCEPT !.forbidden = @ + 1], NilResult,
                            MySQLError("ErrUnknown", "parser in blacklist"),
                            NoPanic))
      [] req.allowed \notin {"yes", "no"} ->
           AtReturn(Outcome(st, NilResult, NilErr, req.allowed))
      [] OTHER ->
           afterDoQuery(doQuery(st, req))

\* se.manager.RecordSessionSQLMetrics(...) and `return r, err`, q holding
\* the session and the named results
recordMetrics(q, req) ==
    IF req.metrics # "ok"
    THEN Outcome(q.st, q.r, q.err, req.metrics)
    ELSE Outcome([q.st EXCEPT !.metrics = @ + 1], q.r, q.err, NoPanic)

\* the rest of the body of handleQuery from the place f
bodyFrom(f, req) ==
    IF f.pc = "return" THEN f.o ELSE recordMetrics(f.o, req)

\* the body of handleQuery, up to its return or to the panic that leaves it;
\* r and err are the named results at that moment
handleQueryBody(st0, req) ==
    bodyFrom(checkedQuery([st0 EXCEPT !.trace = <<>>], req), req)

\* the mutant of the deferred function: only a panic whose value is an error
\* is turned into ErrInternalServer, any other value keeps unwinding
recoverOnlyErrors(o) ==
    IF o.panic = "panic(error)"
    THEN [o EXCEPT !.err = ErrInternalServer, !.panic = NoPanic]
    ELSE o

\* the deferred function of handleQuery: recover() stops any panic and the
\* named result err becomes ErrInternalServer
recoverPanic(o) ==
    IF o.panic # NoPanic
    THEN [o EXCEPT !.err = ErrInternalServer, !.panic = NoPanic]
    ELSE o

\* SessionExecutor.handleQuery(sql): what the caller gets
handleQuery(st, req) == recoverPanic(handleQueryBody(st, req))

(***************************************************************************)
(* The queries a client sends and what the collaborators answer while one  *)
(* is handled.  The fields describe the SQL after its trailing ';' were    *)
(* cut off: what IsSQLAllowed says, the type PreviewSql gives, whether the *)
(* user is read-only, whether the SQL parses and the type of the node the  *)
(* parser returns, what                                                    *)
(* BuildPlan, the backend and RecordSessionSQLMetrics answer, the kind of  *)
(* SHOW, the general-log flag, the database of USE, the assignments of     *)
(* SET and the slices whose pinned connection fails.  A field that no      *)
(* statement of the path of the query reads keeps its first value.         *)
(***************************************************************************)
MaxQueries == 1

PanicValues == {"panic(error)", "panic(string)"}

ShowTypes == {"ShowDatabases", "ShowTables", "ShowStatus", "ShowVariables",
              "ShowWarnings"}

\* the SET statements sent as queries
QuerySets ==
    {<<Assign(FALSE, "autocommit", "1", <<>>)>>,
     <<Assign(FALSE, "autocommit", "0", <<>>)>>,
     <<Assign(FALSE, "SetNAMES", "utf8mb4", <<>>)>>,
     <<Assign(FALSE, "sql_mode", "ansi", <<>>),
       Assign(FALSE, "autocommit", "2", <<>>)>>}

\* the node of a statement the parser refused
NilNode == "nil"

\* the types of node the parser gives the statements PreviewSql takes for
\* a tp: SET PASSWORD and SET ROLE are SET statements for PreviewSql and
\* nodes of their own for the parser
NodeTypes(tp) ==
    CASE tp = "StmtSelect"   -> {"*ast.SelectStmt"}
      [] tp = "StmtInsert"   -> {"*ast.InsertStmt"}
      [] tp = "StmtShow"     -> {"*ast.ShowStmt"}
      [] tp = "StmtUse"      -> {"*ast.UseStmt"}
      [] tp = "StmtSet"      -> {"*ast.SetStmt", "*ast.SetPwdStmt",
                                 "*ast.SetRoleStmt"}
      [] tp = "StmtBegin"    -> {"*ast.BeginStmt"}
      [] tp = "StmtCommit"   -> {"*ast.CommitStmt"}
      [] tp = "StmtRollback" -> {"*ast.RollbackStmt"}

\* the requests qs, each with every node the parser can give it
Parsed(qs) ==
    UNION {{[q EXCEPT !.node = n] :
               n \in IF q.parses THEN NodeTypes(q.stmtType) ELSE {NilNode}} :
           q \in qs}

\* SELECT 1 of a user who may write, allowed, parsed, planned, run and
\* counted
PlainSelect ==
    [allowed |-> "yes", stmtType |-> "StmtSelect", readUser |-> FALSE,
     parses |-> TRUE, node |-> "*ast.SelectStmt",
     plan |-> "ok", backend |-> "ok", metrics |-> "ok",
     showTp |-> "ShowDatabases", generalLog |-> FALSE, dbName |-> "",
     vs |-> <<>>, failing |-> {}]

\* the queries IsSQLAllowed refuses or panics on: nothing else is asked
RefusedRequests ==
    {[PlainSelect EXCEPT !.allowed = a] : a \in {"no"} \cup PanicValues}

\* a statement of type tp that reaches doQuery, and what the metrics
\* recording answers; the user is read-only or not for the statements that
\* need a plan, and may write for those of the fast path
Reaching(tp) ==
    {[PlainSelect EXCEPT !.stmtType = tp, !.readUser = u, !.metrics = m] :
        u \in IF tp \in {"StmtSelect", "StmtInsert"} THEN BOOLEAN ELSE {FALSE},
        m \in {"ok"} \cup PanicValues}

\* the statements that go through getPlan and ExecuteIn
PlannedRequests ==
    {[q EXCEPT !.parses = ps, !.plan = pl, !.backend = b] :
        q \in Reaching("StmtSelect") \cup Reaching("StmtInsert"),
        ps \in BOOLEAN,
        pl \in {"ok", "err"} \cup PanicValues,
        b \in {"ok", "err"} \cup PanicValues}

\* SHOW: the kind of SHOW, the general-log flag and the backend
ShowRequests ==
    {[q EXCEPT !.parses = ps, !.showTp = tp, !.generalLog = gl, !.backend = b] :
        q \in Reaching("StmtShow"), ps \in BOOLEAN, tp \in ShowTypes,
        gl \in BOOLEAN, b \in {"ok", "err"} \cup PanicValues}

\* USE dbName
UseRequests ==
    {[q EXCEPT !.parses = ps, !.dbName = d] :
        q \in Reaching("StmtUse"), ps \in BOOLEAN,
        d \in {"", "db1", "db2", "db9"}}

\* SET, BEGIN, COMMIT and ROLLBACK
ControlRequests ==
    {[q EXCEPT !.parses = ps, !.vs = vs, !.failing = f] :
        q \in Reaching("StmtSet"), ps \in BOOLEAN,
        vs \in {<<>>} \cup QuerySets,
        f \in SUBSET Slices}
    \cup {[q EXCEPT !.parses = ps, !.failing = f] :
             q \in Reaching("StmtBegin") \cup Reaching("StmtCommit")
                      \cup Reaching("StmtRollback"),
             ps \in BOOLEAN, f \in SUBSET Slices}

\* the request reads every field that differs from its first value
Read(q) ==
    /\ (q.readUser /\ q.stmtType = "StmtInsert") => q.parses
    /\ (~q.parses \/ (q.readUser /\ q.stmtType = "StmtInsert"))
          => q.plan = "ok"
    /\ (q.plan # "ok" \/ (q.readUser /\ q.stmtType = "StmtInsert")
           \/ (~q.parses /\ q.stmtType # "StmtShow"))
          => q.backend = "ok"
    /\ (q.stmtType = "StmtShow" /\ q.parses
           /\ (q.showTp = "ShowDatabases"
                  \/ (q.showTp = "ShowVariables" /\ q.generalLog)))
          => q.backend = "ok"
    /\ ~q.parses => q.showTp = "ShowDatabases"
    /\ q.showTp # "ShowVariables" => ~q.generalLog
    /\ ~q.parses => q.dbName = ""
    /\ (q.allowed # "yes" \/ q.plan \in PanicValues
           \/ q.backend \in PanicValues)
          => q.metrics = "ok"
    /\ q.node = "*ast.SetStmt" <=> q.vs # <<>>
    /\ (~q.parses \/ q.stmtType = "StmtBegin"
           \/ (q.stmtType = "StmtSet"
                  /\ \A i \in 1..Len(q.vs) : ~TurnsAutocommitOn(q.vs[i])))
          => q.failing = {}

\* (the set is written as an image so that it is enumerated once)
Requests ==
    {req : req \in
        {q \in RefusedRequests
                  \cup Parsed(PlannedRequests \cup ShowRequests
                                 \cup UseRequests \cup ControlRequests) :
            Read(q)}}

NoReturn == [r |-> NilResult, err |-> NilErr, panic |-> NoPanic]

\* no query has been handled yet
NoRequest == [allowed |-> "none"]

\* no query has begun yet
NoSession == [trace |-> <<>>]

\* a session whose current database is one of dbs, before its next query
SeSessions(dbs) ==
    /\ db \in dbs
    /\ forbidden = 0
    /\ metrics = 0
    /\ trace = <<>>
    /\ hqRet = NoReturn
    /\ hqRaised = NoPanic
    /\ hqAllowed = "none"
    /\ hqCount = 0
    /\ hqReq = NoRequest
    /\ hqPc = "idle"
    /\ hqBefore = NoSession

\* a new session: the database it was opened on
SeInit == SeSessions({"db1"})

\* a session on the database it was opened on, or on the one an earlier
\* USE has chosen
HqInit == SeSessions(AllowedDBs)

\* the session becomes st
SessionIs(st) ==
    /\ db' = st.db
    /\ forbidden' = st.forbidden
    /\ metrics' = st.metrics
    /\ trace' = st.trace
    /\ charset' = st.charset
    /\ collation' = st.collation
    /\ status' = st.status
    /\ txConns' = st.txConns
    /\ variables' = st.variables
    /\ generalLog' = st.generalLog
    /\ txRecycled' = st.txRecycled

\* handleQuery leaves its body with the outcome o: the deferred function
\* runs and the caller gets the named results
Returned(o) ==
    /\ SessionIs(recoverPanic(o).st)
    /\ hqRet' = [r     |-> recoverPanic(o).r,
                 err   |-> recoverPanic(o).err,
                 panic |-> recoverPanic(o).panic]
    /\ hqRaised' = o.panic
    /\ hqCount' = hqCount + 1
    /\ hqPc' = "idle"

\* what a step of handleQuery leaves alone
HqFrame ==
    /\ UNCHANGED <<collationIds, setPc>>
    /\ UNCHANGED lwVars
    /\ UNCHANGED ieVars
    /\ UNCHANGED stmtVars
    /\ UNCHANGED flVars
    /\ UNCHANGED wireVars
    /\ UNCHANGED acVars

\* handleQuery at the place f has entered the loop of handleSet
InHandleSet(f, req) ==
    /\ f.pc = "record"
    /\ req.vs # <<>>
    /\ f.o.st.trace # <<>>
    /\ f.o.st.trace[Len(f.o.st.trace)] = "handleSet"

\* handleQuery runs from its first statement to the blacklist return, to a
\* panic, to the loop of handleSet (which handleSet over no assignment
\* stands for) or to the return of doQuery
enterQuery(req) ==
    LET f == checkedQuery([Session EXCEPT !.trace = <<>>],
                          [req EXCEPT !.vs = <<>>])
    IN  CASE f.pc = "return" ->
               /\ Returned(f.o)
               /\ UNCHANGED <<setReq, setBefore, setRet, hsPc, hsTodo>>
          [] InHandleSet(f, req) ->
               /\ SessionIs(f.o.st)
               /\ hqRet' = NoReturn
               /\ hqRaised' = NoPanic
               /\ hqPc' = "handleSet"
               /\ setReq' = [vs |-> req.vs, failing |-> req.failing]
               /\ setBefore' = SetSession
               /\ setRet' = NilErr
               /\ hsPc' = "loop"
               /\ hsTodo' = req.vs
               /\ UNCHANGED hqCount
          [] OTHER ->
               /\ SessionIs(f.o.st)
               /\ hqRet' = [r |-> f.o.r, err |-> f.o.err, panic |-> NoPanic]
               /\ hqRaised' = NoPanic
               /\ hqPc' = "record"
               /\ UNCHANGED <<setReq, setBefore, setRet, hsPc, hsTodo>>
               /\ UNCHANGED hqCount

\* a client sends COM_QUERY: SessionExecutor.handleQuery(sql) is called,
\* its named results are nil, it has made no call and handled no SET yet
callHandleQuery ==
    /\ hqPc = "idle"
    /\ hqCount < MaxQueries
    /\ \E req \in Requests :
          /\ req.failing \subseteq txConns
          /\ req.stmtType = "StmtBegin" => ServerStatusInTrans \notin status
          /\ hqAllowed' = req.allowed
          /\ hqReq' = req
    /\ hqBefore' = [session |-> Session, other |-> hsOther]
    /\ hqRet' = NoReturn
    /\ hqRaised' = NoPanic
    /\ hqPc' = "called"
    /\ trace' = <<>>
    /\ setReq' = NoAssignment
    /\ setBefore' = SetSession
    /\ setRet' = NilErr
    /\ UNCHANGED <<db, forbidden, metrics, charset, collation, status,
                   txConns, variables, generalLog, txRecycled>>
    /\ UNCHANGED <<hqCount, hsPc, hsTodo, hsOther>>
    /\ HqFrame

\* the body of handleQuery runs, from the blacklist check on
checkQuery ==
    /\ hqPc = "called"
    /\ enterQuery(hqReq)
    /\ UNCHANGED <<hqAllowed, hqReq, hqBefore, hsOther>>
    /\ HqFrame

\* the session and the named results when handleQuery comes to line 79:
\* handleSet has returned (nil, err) through doQuery, or doQuery had
\* returned before
beforeRecord ==
    IF hqPc = "handleSet"
    THEN Outcome(Session, NilResult, setRet, NoPanic)
    ELSE Outcome(Session, hqRet.r, hqRet.err, NoPanic)

\* doQuery has returned: RecordSessionSQLMetrics runs and handleQuery
\* returns
returnHandleQuery ==
    /\ hqPc = "record" \/ (hqPc = "handleSet" /\ hsPc = "done")
    /\ Returned(recordMetrics(beforeRecord, hqReq))
    /\ hsPc' = "idle"
    /\ UNCHANGED <<hqAllowed, hqReq, hqBefore>>
    /\ UNCHANGED <<setReq, setBefore, setRet, hsTodo, hsOther>>
    /\ HqFrame

\* SessionExecutor.handleQuery(sql), step by step; the loop of handleSet is
\* the action rangeVariables
HandleQuery == callHandleQuery \/ checkQuery \/ returnHandleQuery

(***************************************************************************)
(* SessionExecutor.handleStmtPrepare and handleStmtClose.                  *)
(*                                                                         *)
(* A uint32 is the pair of its 16-bit limbs, low limb first.  The session  *)
(* is the record (stmts, stmtID); se.stmts is a function from ids to       *)
(* statements.                                                             *)
(***************************************************************************)
U32(n) == <<n % Limb, (n \div Limb) % Limb>>

\* math.MaxUint32 - k, for k < 65536
MaxUint32Minus(k) == <<Limb - 1 - k, Limb - 1>>

\* a + 1 on uint32: se.stmtID++
Inc32(a) ==
    IF a[1] + 1 < Limb
    THEN <<a[1] + 1, a[2]>>
    ELSE <<0, (a[2] + 1) % Limb>>

\* a < b on uint32
Less32(a, b) == a[2] < b[2] \/ (a[2] = b[2] /\ a[1] < b[1])

\* strings.TrimRight(sql, ";") on the statements a client prepares here
TrimRightSemicolon(sql) ==
    CASE sql = "select 1;"    -> "select 1"
      [] sql = "select ?, ?;;" -> "select ?, ?"
      [] OTHER                -> sql

\* calcParams(sql): the number of '?' outside quotes; an open quote is an
\* error
calcParams(sql) ==
    CASE sql = "select 1"    -> [paramCount |-> 0, ok |-> TRUE]
      [] sql = "select ?"    -> [paramCount |-> 1, ok |-> TRUE]
      [] sql = "select ?, ?" -> [paramCount |-> 2, ok |-> TRUE]
      [] sql = "select '?'"  -> [paramCount |-> 0, ok |-> TRUE]
      [] OTHER               -> [paramCount |-> 0, ok |-> FALSE]

NilStmt == <<>>

\* new(Stmt) with its fields filled in
Stmt(id, sql, paramCount) ==
    [id |-> id, sql |-> sql, paramCount |-> paramCount, columnCount |-> 0]

\* se.stmts[id] = stmt
Store(table, id, stmt) ==
    [k \in DOMAIN table \cup {id} |-> IF k = id THEN stmt ELSE table[k]]

\* delete(se.stmts, id)
Delete(table, id) == [k \in DOMAIN table \ {id} |-> table[k]]

\* handleStmtPrepare once calcParams has answered params for the trimmed sql
prepared(st, sql, params) ==
    IF ~params.ok
    THEN [st |-> st, stmt |-> NilStmt, err |-> Errorf("calcParams")]
    ELSE [st   |-> [stmts  |-> Store(st.stmts, st.stmtID,
                                     Stmt(st.stmtID, sql, params.paramCount)),
                    stmtID |-> Inc32(st.stmtID)],
          stmt |-> <<Stmt(st.stmtID, sql, params.paramCount)>>,
          err  |-> NilErr]

\* SessionExecutor.handleStmtPrepare(sql)
handleStmtPrepare(st, sql) ==
    prepared(st, TrimRightSemicolon(sql), calcParams(TrimRightSemicolon(sql)))

\* binary.LittleEndian.Uint32(data[0:4])
LittleEndianUint32(data) ==
    <<data[1] + 256 * data[2], data[3] + 256 * data[4]>>

\* the mutant of handleStmtClose: the id is read in network byte order
handleStmtCloseBigEndian(st, data) ==
    IF Len(data) < 4
    THEN [st |-> st, err |-> NilErr]
    ELSE [st  |-> [st EXCEPT !.stmts =
                      Delete(@, <<data[4] + 256 * data[3],
                                  data[2] + 256 * data[1]>>)],
          err |-> NilErr]

\* SessionExecutor.handleStmtClose(data)
handleStmtClose(st, data) ==
    IF Len(data) < 4
    THEN [st |-> st, err |-> NilErr]
    ELSE [st  |-> [st EXCEPT !.stmts = Delete(@, LittleEndianUint32(data))],
          err |-> NilErr]

(***************************************************************************)
(* The COM_STMT_PREPARE and COM_STMT_CLOSE commands of one session.  A     *)
(* session is met either new or after 2^32 - 2 PREPAREs, with some of its  *)
(* first statements still open.                                            *)
(***************************************************************************)
MaxCommands == 4

SqlTexts == {"select 1;", "select ?", "select ?, ?;;", "select '?'", "select '"}

\* the four bytes of a uint32, low byte first
PutUint32(id) ==
    <<id[1] % 256, id[1] \div 256, id[2] % 256, id[2] \div 256>>

\* the payloads of COM_STMT_CLOSE: too short, an id, an id and more bytes
ClosePayloads ==
    {<<>>, <<0, 0, 0>>, <<1, 0, 0, 0, 9>>}
       \cup {PutUint32(id) : id \in {U32(0), U32(1), U32(256), MaxUint32Minus(0),
                                     MaxUint32Minus(1)}}

NoID == <<>>

\* no statement is prepared
NoStmts == [k \in {} |-> NilStmt]

\* the statements of ids that were prepared long ago and never closed
OldStmts(ids) == [k \in ids |-> Stmt(k, "select 1", 0)]

NoCommand == [kind |-> "none"]

StmtIdle ==
    /\ stmts = NoStmts
    /\ stmtID = U32(0)
    /\ lastID = NoID
    /\ stmtPc = 0
    /\ stmtOp = NoCommand
    /\ stmtBefore = [stmts |-> stmts, stmtID |-> stmtID, lastID |-> lastID]

StmtInit ==
    /\ \/ /\ stmtID = U32(0)
          /\ stmts = NoStmts
          /\ lastID = NoID
       \/ /\ stmtID = MaxUint32Minus(1)
          /\ \E ids \in SUBSET {U32(0), U32(1)} : stmts = OldStmts(ids)
          /\ lastID = MaxUint32Minus(2)
    /\ stmtPc = 0
    /\ stmtOp = NoCommand
    /\ stmtBefore = [stmts |-> stmts, stmtID |-> stmtID, lastID |-> lastID]

\* the session as handleStmtPrepare and handleStmtClose take it
StmtSession == [stmts |-> stmts, stmtID |-> stmtID]

\* the greatest id handed out, once stmt has been handed out as well
Latest(last, stmt) ==
    IF stmt = NilStmt
    THEN last
    ELSE IF last = NoID \/ Less32(last, stmt[1].id) THEN stmt[1].id ELSE last

\* what a PREPARE leaves behind
Prepared(sql, o) ==
    /\ stmts' = o.st.stmts
    /\ stmtID' = o.st.stmtID
    /\ lastID' = Latest(lastID, o.stmt)
    /\ stmtOp' = [kind |-> "prepare", sql |-> sql, stmt |-> o.stmt,
                  err |-> o.err]

\* a client sends COM_STMT_PREPARE
HandleStmtPrepare ==
    /\ stmtPc < MaxCommands
    /\ \E sql \in SqlTexts : Prepared(sql, handleStmtPrepare(StmtSession, sql))
    /\ stmtBefore' = [stmts |-> stmts, stmtID |-> stmtID, lastID |-> lastID]
    /\ stmtPc' = stmtPc + 1
    /\ UNCHANGED <<lwVars, ieVars, seVars, setVars, flVars, wireVars, acVars>>

\* what a CLOSE leaves behind
Closed(data, o) ==
    /\ stmts' = o.st.stmts
    /\ stmtID' = o.st.stmtID
    /\ stmtOp' = [kind |-> "close", data |-> data, err |-> o.err]

\* a client sends COM_STMT_CLOSE
HandleStmtClose ==
    /\ stmtPc < MaxCommands
    /\ \E data \in ClosePayloads : Closed(data, handleStmtClose(StmtSession, data))
    /\ stmtBefore' = [stmts |-> stmts, stmtID |-> stmtID, lastID |-> lastID]
    /\ stmtPc' = stmtPc + 1
    /\ UNCHANGED lastID
    /\ UNCHANGED <<lwVars, ieVars, seVars, setVars, flVars, wireVars, acVars>>

(***************************************************************************)
(* SessionExecutor.handleFieldList.                                        *)
(*                                                                         *)
(* conns is the sequence of the backend connections getBackendConn has     *)
(* handed out; conns[n] counts how often connection n was handed to        *)
(* recycleBackendConn.  A request is the payload (bytes) and the answers   *)
(* of the collaborators: "ok", "err" or a panic value.                     *)
(***************************************************************************)
\* bytes.IndexByte(data, 0x00): the 0-based index of the first NUL, or -1
IndexByte(data) ==
    IF \E i \in 1..Len(data) : data[i] = 0
    THEN MinOf({i \in 1..Len(data) : data[i] = 0}) - 1
    ELSE -1

\* the value a Go runtime error panics with
RuntimePanic == "panic(error)"

\* the deferred se.recycleBackendConn(pc, false) runs
recycleBackendConn(o, pc) == [o EXCEPT !.st[pc] = @ + 1]

\* handleFieldList from pc.FieldList(table, wildcard) on
fieldList(st, req) ==
    CASE req.fieldList = "ok"  -> Outcome(st, ResultOf("FieldList"), NilErr, NoPanic)
      [] req.fieldList = "err" -> Outcome(st, NilResult, BackendError, NoPanic)
      [] OTHER                 -> Outcome(st, NilResult, NilErr, req.fieldList)

\* handleFieldList from initBackendConn on
initialised(st, req) ==
    CASE req.init = "ok"  -> fieldList(st, req)
      [] req.init = "err" -> Outcome(st, NilResult, Errorf("initBackendConn"), NoPanic)
      [] OTHER            -> Outcome(st, NilResult, NilErr, req.init)

\* handleFieldList after the defer statement, up to its return or panic
withConn(st, req) ==
    CASE req.phyDB = "ok"  -> initialised(st, req)
      [] req.phyDB = "err" -> Outcome(st, NilResult, Errorf("GetDefaultPhyDB"), NoPanic)
      [] OTHER             -> Outcome(st, NilResult, NilErr, req.phyDB)

\* the mutant of acquired: the connection is recycled before each return
\* instead of by a deferred call
acquiredNoDefer(st, req) ==
    IF withConn(Append(st, 0), req).panic # NoPanic
    THEN withConn(Append(st, 0), req)
    ELSE recycleBackendConn(withConn(Append(st, 0), req), Len(st) + 1)

\* handleFieldList once getBackendConn has handed out a connection
acquired(st, req) ==
    recycleBackendConn(withConn(Append(st, 0), req), Len(st) + 1)

\* handleFieldList from se.getBackendConn on
routed(st, req) ==
    CASE req.acquire = "ok"  -> acquired(st, req)
      [] req.acquire = "err" -> Outcome(st, NilResult, Errorf("getBackendConn"), NoPanic)
      [] OTHER               -> Outcome(st, NilResult, NilErr, req.acquire)

\* SessionExecutor.handleFieldList(data)
handleFieldList(st, req) ==
    IF IndexByte(req.data) < 0
    THEN Outcome(st, NilResult, NilErr, RuntimePanic)
    ELSE IF req.rule # "ok"
         THEN Outcome(st, NilResult, NilErr, req.rule)
         ELSE routed(st, req)

MaxFieldLists == 3

\* COM_FIELD_LIST payloads: "t\0", "t\0%", "\0", "t" and the empty payload
FieldListPayloads == {<<116, 0>>, <<116, 0, 37>>, <<0>>, <<116>>, <<>>}

FieldListRequests ==
    {q \in [data      : FieldListPayloads,
            rule      : {"ok"} \cup PanicValues,
            acquire   : {"ok", "err"} \cup PanicValues,
            phyDB     : {"ok", "err"} \cup PanicValues,
            init      : {"ok", "err"} \cup PanicValues,
            fieldList : {"ok", "err"} \cup PanicValues] :
        /\ IndexByte(q.data) < 0 => q.rule = "ok"
        /\ (IndexByte(q.data) < 0 \/ q.rule # "ok") => q.acquire = "ok"
        /\ (IndexByte(q.data) < 0 \/ q.rule # "ok" \/ q.acquire # "ok")
              => q.phyDB = "ok"
        /\ (IndexByte(q.data) < 0 \/ q.rule # "ok" \/ q.acquire # "ok"
              \/ q.phyDB # "ok") => q.init = "ok"
        /\ (IndexByte(q.data) < 0 \/ q.rule # "ok" \/ q.acquire # "ok"
              \/ q.phyDB # "ok" \/ q.init # "ok") => q.fieldList = "ok"}

NoFieldList == [data |-> <<>>, rule |-> "none"]

FlIdle ==
    /\ conns = <<>>
    /\ flPc = 0
    /\ flReq = NoFieldList
    /\ flRet = NoReturn

\* a client sends COM_FIELD_LIST: handleFieldList runs to its end
HandleFieldList ==
    /\ flPc < MaxFieldLists
    /\ \E req \in FieldListRequests :
          /\ conns' = handleFieldList(conns, req).st
          /\ flRet' = [r     |-> handleFieldList(conns, req).r,
                       err   |-> handleFieldList(conns, req).err,
                       panic |-> handleFieldList(conns, req).panic]
          /\ flReq' = req
    /\ flPc' = flPc + 1
    /\ UNCHANGED <<lwVars, ieVars, seVars, setVars, stmtVars, wireVars, acVars>>

(***************************************************************************)
(* The wire layer (package mysql): the Listener, its sessions and the      *)
(* commands a client sends over a session.  Listener and Conn are not part *)
(* of the sources at hand, only their tests are; the model follows the     *)
(* design text: Shutdown moves the listener to Closing, a session that     *)
(* observes the shutdown is counted once as refused, COM_PING answers OK   *)
(* except in Closing, and an error that comes after result bytes went out  *)
(* cannot be sent as an error packet: the connection is dropped and the    *)
(* client reports 2013.                                                    *)
(***************************************************************************)
MaxWire == 4

\* the client connections
Clients == {"c1", "c2"}

\* NewSQLError(number, sqlState, message), as the client prints it
SQLError(num, state, msg) == [num |-> num, state |-> state, msg |-> msg]

\* an OK packet
OKPacket == SQLError(0, "", "")

\* ERServerShutdown / SSServerShutdown
ErrServerShutdown == SQLError(1053, "08S01", "Server shutdown in progress")

\* what the client reports when the server drops the connection mid-result
ErrLostConnection ==
    SQLError(2013, "HY000", "Lost connection to MySQL server during query")

\* the error testHandler returns: ERUnknownComError / SSUnknownComError
HandlerError == SQLError(1047, "08S01", "forced error")

\* a listener that accepts connections
NewListener ==
    [shutdown |-> FALSE, closed |-> FALSE, sessions |-> {}, refuse |-> 0]

\* the accept loop took the connection c
accept(l, c) == [l EXCEPT !.sessions = @ \cup {c}]

\* the mutant of Shutdown: every call counts the sessions again
ShutdownCounting(l) ==
    [l EXCEPT !.shutdown = TRUE, !.closed = TRUE,
              !.refuse = @ + Cardinality(l.sessions)]

\* Listener.Shutdown(): the first call closes the listener and every
\* connected session observes the shutdown, once
Shutdown(l) ==
    IF l.shutdown
    THEN l
    ELSE [l EXCEPT !.shutdown = TRUE, !.closed = TRUE,
                   !.refuse = @ + Cardinality(l.sessions)]

\* Listener.Close(): no new connection is accepted
Close(l) == [l EXCEPT !.closed = TRUE]

\* the mutant of Ping: COM_PING is answered OK in every state
PingAlwaysOK(l) == OKPacket

\* COM_PING on a session of the listener l: what the client gets
Ping(l) == IF l.shutdown THEN ErrServerShutdown ELSE OKPacket

\* the mutant of ComQuery: the error of the handler is written as an error
\* packet whether or not result bytes went out before
ComQueryAlwaysPacket(l, h) ==
    IF l.shutdown
    THEN [sees |-> ErrServerShutdown, open |-> TRUE]
    ELSE IF ~h.err
         THEN [sees |-> OKPacket, open |-> TRUE]
         ELSE [sees |-> HandlerError, open |-> TRUE]

\* COM_QUERY on a session of the listener l, with a handler that sends
\* result bytes first (h.sent) and returns an error (h.err) or not: what the
\* client gets and whether the connection stays open
ComQuery(l, h) ==
    IF l.shutdown
    THEN [sees |-> ErrServerShutdown, open |-> TRUE]
    ELSE IF ~h.err
         THEN [sees |-> OKPacket, open |-> TRUE]
         ELSE IF h.sent
              THEN [sees |-> ErrLostConnection, open |-> FALSE]
              ELSE [sees |-> HandlerError, open |-> TRUE]

\* the connection c is gone
hangUp(l, c) == [l EXCEPT !.sessions = @ \ {c}]

\* the handlers of the test: result bytes sent or not, error or not
Handlers == [sent : BOOLEAN, err : BOOLEAN]

NoHandler == [sent |-> FALSE, err |-> FALSE]

NoStep ==
    [cmd |-> "none", conn |-> "", before |-> NewListener, h |-> NoHandler,
     sees |-> OKPacket]

LnIdle ==
    /\ listener = NewListener
    /\ wire = NoStep
    /\ lnPc = 0

\* one step at the wire: the command, the listener it met and what the
\* client saw
WireStep(cmd, c, h, sees, after) ==
    /\ lnPc < MaxWire
    /\ listener' = after
    /\ wire' = [cmd |-> cmd, conn |-> c, before |-> listener, h |-> h,
                sees |-> sees]
    /\ lnPc' = lnPc + 1
    /\ UNCHANGED <<lwVars, ieVars, seVars, setVars, stmtVars, flVars, caVars, acVars>>

\* a client connects while the listener accepts
ClientConnects ==
    /\ ~listener.closed
    /\ \E c \in Clients \ listener.sessions :
          WireStep("connect", c, NoHandler, OKPacket, accept(listener, c))

\* a connected client sends COM_PING
ClientPings ==
    \E c \in listener.sessions :
       WireStep("ping", c, NoHandler, Ping(listener), listener)

\* the listener after COM_QUERY on c was answered with o
afterQuery(l, c, o) == IF o.open THEN l ELSE hangUp(l, c)

\* a connected client sends COM_QUERY
ClientQueries ==
    \E c \in listener.sessions, h \in Handlers :
       WireStep("query", c, h, ComQuery(listener, h).sees,
                afterQuery(listener, c, ComQuery(listener, h)))

ListenerShutdown ==
    WireStep("shutdown", "", NoHandler, OKPacket, Shutdown(listener))

ListenerClose ==
    WireStep("close", "", NoHandler, OKPacket, Close(listener))

(***************************************************************************)
(* parseConnAttrs.  The function is not part of the sources at hand, only  *)
(* its test is; the model follows the design text: the total length as a   *)
(* length-encoded integer, then pairs of len-u8, bytes, len-u8, bytes;     *)
(* malformed input gives ErrMalformedPacket.                               *)
(***************************************************************************)
MaxPairs == 2

ErrMalformedPacket == MySQLError("ErrMalformedPacket", "")

\* the bytes data[pos .. pos+n-1], 0-based
Bytes(data, pos, n) == SubSeq(data, pos + 1, pos + n)

\* the mutant of readLenEncInt: the integer is always taken to be one byte
readLenEncIntNarrow(data, pos) ==
    IF pos >= Len(data)
    THEN [v |-> 0, pos |-> 0, ok |-> FALSE]
    ELSE [v |-> data[pos + 1], pos |-> pos + 1, ok |-> TRUE]

\* the length-encoded integer at data[pos]: one byte below 0xfb, or 0xfc
\* and two bytes, or 0xfd and three bytes, least significant first
readLenEncInt(data, pos) ==
    CASE pos >= Len(data) -> [v |-> 0, pos |-> 0, ok |-> FALSE]
      [] data[pos + 1] < 251 ->
           [v |-> data[pos + 1], pos |-> pos + 1, ok |-> TRUE]
      [] data[pos + 1] = 252 /\ pos + 2 < Len(data) ->
           [v |-> data[pos + 2] + 256 * data[pos + 3], pos |-> pos + 3,
            ok |-> TRUE]
      [] data[pos + 1] = 253 /\ pos + 3 < Len(data) ->
           [v |-> data[pos + 2] + 256 * data[pos + 3] + 65536 * data[pos + 4],
            pos |-> pos + 4, ok |-> TRUE]
      [] OTHER -> [v |-> 0, pos |-> 0, ok |-> FALSE]

\* attrs[key] = val on a map kept as a set of pairs
putAttr(attrs, key, val) ==
    {a \in attrs : a[1] # key} \cup {<<key, val>>}

\* len-u8, bytes at data[pos], inside data[.. end-1]
readLenBytes(data, pos, end) ==
    IF pos >= end \/ pos + 1 + data[pos + 1] > end
    THEN [b |-> <<>>, pos |-> 0, ok |-> FALSE]
    ELSE [b |-> Bytes(data, pos + 1, data[pos + 1]),
          pos |-> pos + 1 + data[pos + 1], ok |-> TRUE]

\* the value of a pair whose key k was read
readValue(data, k, end) ==
    IF k.ok THEN readLenBytes(data, k.pos, end) ELSE k

RECURSIVE readPairs(_, _, _, _)
\* the loop of parseConnAttrs: pairs are read from pos until end is reached
readPairs(data, pos, end, attrs) ==
    IF pos >= end
    THEN [attrs |-> attrs, pos |-> pos, err |-> NilErr]
    ELSE LET k == readLenBytes(data, pos, end)
             v == readValue(data, k, end)
         IN  IF ~v.ok
             THEN [attrs |-> {}, pos |-> 0, err |-> ErrMalformedPacket]
             ELSE readPairs(data, v.pos, end, putAttr(attrs, k.b, v.b))

\* parseConnAttrs once the total length n has been read
attrsOfLength(data, n) ==
    IF ~n.ok \/ n.pos + n.v > Len(data)
    THEN [attrs |-> {}, pos |-> 0, err |-> ErrMalformedPacket]
    ELSE readPairs(data, n.pos, n.pos + n.v, {})

\* parseConnAttrs(data, pos): (map[string]string, int, error)
parseConnAttrs(data, pos) == attrsOfLength(data, readLenEncInt(data, pos))

\* the keys and values of the attributes a client sends
AttrStrings == {<<>>, <<97>>, <<98, 99>>}

RECURSIVE PairLists(_)
\* the lists of at most n key/value pairs
PairLists(n) ==
    IF n = 0
    THEN {<<>>}
    ELSE LET shorter == PairLists(n - 1)
         IN  shorter \cup {Append(l, <<k, v>>) :
                              l \in shorter, k \in AttrStrings, v \in AttrStrings}

RECURSIVE encodePairs(_, _)
\* the pairs l[i..] on the wire: len-u8, bytes, len-u8, bytes
encodePairs(l, i) ==
    IF i > Len(l)
    THEN <<>>
    ELSE <<Len(l[i][1])>> \o l[i][1] \o <<Len(l[i][2])>> \o l[i][2]
            \o encodePairs(l, i + 1)

\* the length-encoded integer n, in one byte or as 0xfc and two bytes
lenEncInt(n, wide) ==
    IF wide THEN <<252, n % 256, n \div 256>> ELSE <<n>>

\* the packet a client sends: lead bytes, the total length (off by skew
\* when the client is wrong), the pairs, trailing bytes
Blob(in) ==
    in.lead \o lenEncInt(Len(encodePairs(in.pairs, 1)) + in.skew, in.wide)
            \o encodePairs(in.pairs, 1) \o in.trail

\* the packets handed to parseConnAttrs
AttrInputs ==
    {in \in [pairs : PairLists(MaxPairs), wide : BOOLEAN,
             lead  : {<<>>, <<7>>}, trail : {<<>>, <<0>>},
             skew  : {-1, 0, 1}] :
        Len(encodePairs(in.pairs, 1)) + in.skew >= 0}

NoAttrs == [attrs |-> {}, pos |-> 0, err |-> NilErr]

NoBlob ==
    [pairs |-> <<>>, wide |-> FALSE, lead |-> <<>>, trail |-> <<>>, skew |-> 0]

CaIdle ==
    /\ attrIn = NoBlob
    /\ attrRet = NoAttrs
    /\ attrPc = "idle"

CaInit ==
    /\ attrIn \in AttrInputs
    /\ attrRet = NoAttrs
    /\ attrPc = "call"

\* the handshake hands the blob to parseConnAttrs at the end of the lead
CallParseConnAttrs ==
    /\ attrPc = "call"
    /\ attrRet' = parseConnAttrs(Blob(attrIn), Len(attrIn.lead))
    /\ attrPc' = "done"
    /\ UNCHANGED attrIn
    /\ UNCHANGED <<lwVars, ieVars, seVars, setVars, stmtVars, flVars, lnVars, acVars>>

(***************************************************************************)
(* handleSetAutoCommit run by two goroutines on one session.  Each step    *)
(* below is one statement of the function; se.txLock is a mutex, held by   *)
(* one goroutine or free.                                                  *)
(***************************************************************************)
Goroutines == {"g1", "g2"}

\* everything a step of handleSetAutoCommit leaves alone besides the
\* fields it names
AcFrame ==
    UNCHANGED <<charset, collation, variables, generalLog, collationIds,
                setPc, setReq, setBefore, setRet, hsVars,
                lwVars, ieVars, seVars, stmtVars, flVars, wireVars>>

\* no goroutine has called handleSetAutoCommit yet
AcIdle ==
    /\ txLock = "free"
    /\ acPc = [g \in Goroutines |-> "idle"]
    /\ acArg = [g \in Goroutines |-> FALSE]
    /\ acTodo = [g \in Goroutines |-> {}]
    /\ acRet = [g \in Goroutines |-> NilErr]

\* the sessions the two goroutines can meet: inside or outside a
\* transaction, with or without pinned connections
AcSession ==
    /\ collationIds = AllCollationIds
    /\ charset = DefaultCharset
    /\ collation = DefaultCollationID
    /\ status \in SUBSET {ServerStatusAutocommit, ServerStatusInTrans}
    /\ txConns \in SUBSET Slices
    /\ InTransaction(status, txConns)
    /\ variables = NoVariables
    /\ generalLog = 0
    /\ txRecycled = [s \in Slices |-> 0]
    /\ setPc = 0
    /\ setReq = NoAssignment
    /\ setRet = NilErr
    /\ setBefore = SetSession
    /\ HsIdle

\* the goroutine g calls handleSetAutoCommit(autocommit)
callSetAutoCommit(g) ==
    /\ acPc[g] = "idle"
    /\ \E autocommit \in BOOLEAN : acArg' = [acArg EXCEPT ![g] = autocommit]
    /\ acPc' = [acPc EXCEPT ![g] = "lock"]
    /\ UNCHANGED <<txLock, acTodo, acRet, status, txConns, txRecycled>>
    /\ AcFrame

\* the mutant of Lock: the goroutine goes on whether the mutex is free or
\* not
LockUnheld(g) ==
    /\ acPc[g] = "lock"
    /\ txLock' = g
    /\ acPc' = [acPc EXCEPT ![g] = IF acArg[g] THEN "status" ELSE "clear"]
    /\ UNCHANGED <<acArg, acTodo, acRet, status, txConns, txRecycled>>
    /\ AcFrame

\* se.txLock.Lock(): g goes on once the mutex is free, and holds it
Lock(g) ==
    /\ acPc[g] = "lock"
    /\ txLock = "free"
    /\ txLock' = g
    /\ acPc' = [acPc EXCEPT ![g] = IF acArg[g] THEN "status" ELSE "clear"]
    /\ UNCHANGED <<acArg, acTodo, acRet, status, txConns, txRecycled>>
    /\ AcFrame

\* autocommit = true: the status bits are set, then `range se.txConns`
\* starts on the map that se.txConns holds at this moment
setStatus(g) ==
    /\ acPc[g] = "status"
    /\ status' = (status \cup {ServerStatusAutocommit}) \ {ServerStatusInTrans}
    /\ acTodo' = [acTodo EXCEPT ![g] = txConns]
    /\ acPc' = [acPc EXCEPT ![g] = "range"]
    /\ UNCHANGED <<txLock, acArg, acRet, txConns, txRecycled>>
    /\ AcFrame

\* one turn of the loop: pc.SetAutoCommit(1), which fails or not, then
\* pc.Recycle()
rangeTxConns(g) ==
    /\ acPc[g] = "range"
    /\ acTodo[g] # {}
    /\ \E s \in acTodo[g], failed \in BOOLEAN :
          /\ acRet' = [acRet EXCEPT ![g] = IF failed
                                           THEN Errorf("set autocommit error")
                                           ELSE @]
          /\ txRecycled' = [txRecycled EXCEPT ![s] = @ + 1]
          /\ acTodo' = [acTodo EXCEPT ![g] = @ \ {s}]
    /\ UNCHANGED <<txLock, acPc, acArg, status, txConns>>
    /\ AcFrame

\* after the loop: se.txConns = make(map[string]backend.PooledConnect)
resetTxConns(g) ==
    /\ acPc[g] = "range"
    /\ acTodo[g] = {}
    /\ txConns' = {}
    /\ acPc' = [acPc EXCEPT ![g] = "unlock"]
    /\ UNCHANGED <<txLock, acArg, acTodo, acRet, status, txRecycled>>
    /\ AcFrame

\* autocommit = false: se.status &= ^mysql.ServerStatusAutocommit
clearStatus(g) ==
    /\ acPc[g] = "clear"
    /\ status' = status \ {ServerStatusAutocommit}
    /\ acPc' = [acPc EXCEPT ![g] = "unlock"]
    /\ UNCHANGED <<txLock, acArg, acTodo, acRet, txConns, txRecycled>>
    /\ AcFrame

\* the deferred se.txLock.Unlock(), and the return
Unlock(g) ==
    /\ acPc[g] = "unlock"
    /\ txLock' = "free"
    /\ acPc' = [acPc EXCEPT ![g] = "done"]
    /\ UNCHANGED <<acArg, acTodo, acRet, status, txConns, txRecycled>>
    /\ AcFrame

\* the sessions a query can meet: idle, or in a transaction with one or two
\* pinned connections
HqSession ==
    /\ collationIds = AllCollationIds
    /\ charset = DefaultCharset
    /\ collation = DefaultCollationID
    /\ txConns \in {{}, {"slice-0"}, Slices}
    /\ status = IF txConns = {} THEN {ServerStatusAutocommit}
                                ELSE {ServerStatusInTrans}
    /\ variables = NoVariables
    /\ generalLog = 0
    /\ txRecycled = [s \in Slices |-> 0]
    /\ setPc = 0
    /\ setReq = NoAssignment
    /\ setRet = NilErr
    /\ setBefore = SetSession
    /\ HsIdle

LwSpecInit == LwInit /\ IeIdle /\ SeInit /\ SetIdle /\ StmtIdle /\ FlIdle
                 /\ LnIdle /\ CaIdle /\ AcIdle

SpecLimitWriter == LwSpecInit /\ [][CallNewLimitWriter]_vars

IeSpecInit == LwIdle /\ IeInit /\ SeInit /\ SetIdle /\ StmtIdle /\ FlIdle
                 /\ LnIdle /\ CaIdle /\ AcIdle

IeNext == CallNewInlineExpression \/ CallFlat

SpecInline == IeSpecInit /\ [][IeNext]_vars

\* the assignments of the SET statements with several assignments
ListedAssignments ==
    {Assign(FALSE, "sql_mode", "ansi", <<>>),
     Assign(FALSE, "character_set_results", "utf8mb4", <<>>),
     Assign(FALSE, "SetNAMES", "utf8", <<"utf8_bin">>),
     Assign(FALSE, "SetNAMES", "utf8mb4", <<"utf8_bin">>),
     Assign(FALSE, "autocommit", "1", <<>>),
     Assign(FALSE, "autocommit", "0", <<>>),
     Assign(FALSE, "autocommit", "2", <<>>),
     Assign(FALSE, "max_allowed_packet", "1024", <<>>),
     Assign(TRUE, "sql_mode", "ansi", <<>>)}

\* SET a = x and SET a = x, b = y
SetStatements ==
    {<<a>> : a \in ListedAssignments}
       \cup {<<a, b>> : a \in ListedAssignments, b \in ListedAssignments}

MaxStatements == 1

MaxConcurrent == 1

\* what a step of handleSet leaves alone
HsFrame ==
    /\ UNCHANGED collationIds
    /\ UNCHANGED <<forbidden, metrics, trace, hqRet, hqRaised, hqAllowed,
                   hqCount, hqReq, hqPc, hqBefore>>
    /\ UNCHANGED lwVars
    /\ UNCHANGED ieVars
    /\ UNCHANGED stmtVars
    /\ UNCHANGED flVars
    /\ UNCHANGED wireVars
    /\ UNCHANGED acVars

\* a client sends a SET statement: handleSet is entered with stmt.Variables
callHandleSet ==
    /\ hsPc = "idle"
    /\ setPc < MaxStatements
    /\ \E vs \in SetStatements, failing \in SUBSET txConns :
          /\ failing # {} => \E i \in 1..Len(vs) : TurnsAutocommitOn(vs[i])
          /\ setReq' = [vs |-> vs, failing |-> failing]
          /\ hsTodo' = vs
    /\ setBefore' = SetSession
    /\ setRet' = NilErr
    /\ hsPc' = "loop"
    /\ UNCHANGED hsOther
    /\ setPc' = setPc + 1
    /\ UNCHANGED <<db, charset, collation, status, txConns, variables,
                   generalLog, txRecycled>>
    /\ HsFrame

\* one turn of `for _, v := range stmt.Variables`: handleSetVariable(v) runs
\* (an autocommit assignment takes se.txLock and gives it back before the
\* turn ends); handleSet returns after an error and after the last turn
rangeVariables ==
    /\ hsPc = "loop"
    /\ SetReturned(handleSetVariable(SetSession, Head(hsTodo), setReq.failing))
    /\ hsTodo' = IF setRet' # NilErr THEN <<>> ELSE Tail(hsTodo)
    /\ hsPc' = IF hsTodo' = <<>> THEN "done" ELSE "loop"
    /\ UNCHANGED <<setPc, setReq, setBefore, hsOther>>
    /\ HsFrame

\* SessionExecutor.handleSet(reqCtx, sql, stmt), step by step
HandleSet == callHandleSet \/ rangeVariables

\* another goroutine calls handleSetAutoCommit(autocommit) on the session
\* and runs from its Lock to its Unlock; what it returns goes to its own
\* caller.  se.txLock is free in every state of handleSet and handleQuery
\* here (their own handleSetAutoCommit is inside one step), so the call can
\* come before, between and after their steps
ConcurrentSetAutoCommit ==
    /\ hsOther < MaxConcurrent
    /\ \E autocommit \in BOOLEAN :
          LET o == handleSetAutoCommit(SetSession, autocommit, setReq.failing)
          IN  /\ status' = o.st.status
              /\ txConns' = o.st.txConns
              /\ txRecycled' = o.st.txRecycled
    /\ hsOther' = hsOther + 1
    /\ UNCHANGED <<db, charset, collation, variables, generalLog>>
    /\ UNCHANGED <<setPc, setReq, setBefore, setRet, hsPc, hsTodo>>
    /\ HsFrame

SetStatementNext == HandleSet \/ ConcurrentSetAutoCommit

Init == LwIdle /\ IeIdle /\ HqInit /\ HqSession /\ StmtIdle /\ FlIdle
                 /\ LnIdle /\ CaIdle /\ AcIdle

Next == HandleQuery \/ rangeVariables \/ ConcurrentSetAutoCommit

\* the queries of one session, and another goroutine that switches
\* autocommit on the same session while a query is handled
Spec == Init /\ [][Next]_vars

SetSpecInit == LwIdle /\ IeIdle /\ SeInit /\ SetInit /\ StmtIdle /\ FlIdle
                 /\ LnIdle /\ CaIdle /\ AcIdle

SpecSet == SetSpecInit /\ [][HandleSetVariable]_vars

SetTablesSpecInit ==
    LwIdle /\ IeIdle /\ SeInit /\ SetTablesInit /\ StmtIdle /\ FlIdle
       /\ LnIdle /\ CaIdle /\ AcIdle

SpecSetTables == SetTablesSpecInit /\ [][HandleSetVariable]_vars

SpecSetStatement == SetSpecInit /\ [][SetStatementNext]_vars

StmtSpecInit == LwIdle /\ IeIdle /\ SeInit /\ SetIdle /\ StmtInit /\ FlIdle
                 /\ LnIdle /\ CaIdle /\ AcIdle

StmtNext == HandleStmtPrepare \/ HandleStmtClose

SpecStmt == StmtSpecInit /\ [][StmtNext]_vars

FlSpecInit == LwIdle /\ IeIdle /\ SeInit /\ SetIdle /\ StmtIdle /\ FlIdle
                 /\ LnIdle /\ CaIdle /\ AcIdle

SpecFieldList == FlSpecInit /\ [][HandleFieldList]_vars

LnSpecInit == LwIdle /\ IeIdle /\ SeInit /\ SetIdle /\ StmtIdle /\ FlIdle
                 /\ LnIdle /\ CaIdle /\ AcIdle

LnNext ==
    \/ ClientConnects
    \/ ClientPings
    \/ ClientQueries
    \/ ListenerShutdown
    \/ ListenerClose

SpecListener == LnSpecInit /\ [][LnNext]_vars

CaSpecInit == LwIdle /\ IeIdle /\ SeInit /\ SetIdle /\ StmtIdle /\ FlIdle
                 /\ LnIdle /\ CaInit /\ AcIdle

SpecConnAttrs == CaSpecInit /\ [][CallParseConnAttrs]_vars

AcSpecInit == LwIdle /\ IeIdle /\ SeInit /\ AcSession /\ StmtIdle /\ FlIdle
                 /\ LnIdle /\ CaIdle /\ AcIdle

AcNext ==
    \E g \in Goroutines :
       \/ callSetAutoCommit(g)
       \/ Lock(g)
       \/ setStatus(g)
       \/ rangeTxConns(g)
       \/ resetTxConns(g)
       \/ clearStatus(g)
       \/ Unlock(g)

SpecAutoCommit == AcSpecInit /\ [][AcNext]_vars

(***************************************************************************)
(* Properties of the inline-expression engine.                             *)
(***************************************************************************)
\* the groups of the parsed expression
ParsedGroups == newRet.expr[1].segments

\* the expression that consists of the groups gs
ExprOf(gs) == [expression |-> expression, segments |-> gs]

\* the value list of a scripted segment, as a set of decimal strings
ScriptValues(seg) == {Itoa(n) : n \in seg.script[1].lo..seg.script[1].hi}

RECURSIVE ScriptProduct(_, _)
\* the strings prefix_k + v_k + prefix_k+1 + v_k+1 + ... over every choice of
\* a value v_j from the script of segment j
ScriptProduct(segs, k) ==
    IF k > Len(segs)
    THEN {<<>>}
    ELSE {segs[k].prefix \o v \o rest :
              v \in ScriptValues(segs[k]), rest \in ScriptProduct(segs, k + 1)}

\* a group with at least one segment, every segment with a script
AllScripted(g) ==
    /\ Len(g.segments) >= 1
    /\ \A k \in 1..Len(g.segments) : g.segments[k].script # <<>>

ExampleS1 == <<116, 95, Dollar, LBrace, 48, Dot, Dot, 51, RBrace>>

\* C3: for a group whose segments all carry a script, Flat returns exactly
\* the cross product prefix1+v1+prefix2+v2+... over the value lists of the
\* scripts; t_${0..3} flattens to exactly t_0, t_1, t_2, t_3.
C3_FlatCrossProduct ==
    (iePc = "flat")
    => /\ \A j \in 1..Len(ParsedGroups) :
              AllScripted(ParsedGroups[j])
              => /\ Flat(ExprOf(<<ParsedGroups[j]>>)) =
                        [list |-> SetToBag(ScriptProduct(ParsedGroups[j].segments, 1)),
                         err  |-> ""]
                 /\ flatRet.err = ""
                    => ScriptProduct(ParsedGroups[j].segments, 1)
                           \subseteq BagToSet(flatRet.list)
       /\ (\A j \in 1..Len(ParsedGroups) :
               AllScripted(ParsedGroups[j]) \/ ParsedGroups[j].segments = <<>>)
          => flatRet =
                 [list |-> SetToBag(UNION {ScriptProduct(ParsedGroups[j].segments, 1) :
                               j \in {i \in 1..Len(ParsedGroups) :
                                          AllScripted(ParsedGroups[i])}}),
                  err  |-> ""]
       /\ expression = ExampleS1
          => flatRet = [list |-> SetToBag({<<116, 95, 48>>, <<116, 95, 49>>,
                                           <<116, 95, 50>>, <<116, 95, 51>>}),
                        err  |-> ""]

\* a flattened group of two scripted segments, eight strings
C3_Witness ==
    /\ iePc = "flat"
    /\ Len(ParsedGroups) = 1
    /\ Len(ParsedGroups[1].segments) = 2
    /\ AllScripted(ParsedGroups[1])
    /\ Cardinality(BagToSet(flatRet.list)) = 8

\* the value list of a segment: that of its script, or the one empty string
\* for a segment that is only a literal
SegmentValues(seg) == IF seg.script # <<>> THEN ScriptValues(seg) ELSE {<<>>}

RECURSIVE SegmentProduct(_, _)
\* the cross product over all segments of a group, literal-only ones included
SegmentProduct(segs, k) ==
    IF k > Len(segs)
    THEN {<<>>}
    ELSE {segs[k].prefix \o v \o rest :
              v \in SegmentValues(segs[k]), rest \in SegmentProduct(segs, k + 1)}

\* C4: Flat equals the cross product over all segments of each group; the
\* literal after the last script is joined onto every string of the
\* preceding segments and is never an element of its own.
C4_TrailingLiteralJoined ==
    (iePc = "flat" /\ flatRet.err = "")
    => BagToSet(flatRet.list) =
           UNION {SegmentProduct(ParsedGroups[j].segments, 1) :
                      j \in {i \in 1..Len(ParsedGroups) :
                                 ParsedGroups[i].segments # <<>>}}

\* the orders in which n groups can be listed: every permutation, and the
\* groups in their order followed by one of them a second time
Rearrangements(n) ==
    {f \in [1..n -> 1..n] : \A j \in 1..n : \E k \in 1..n : f[k] = j}
        \cup {[k \in 1..(n + 1) |-> IF k <= n THEN k ELSE j] : j \in 1..n}

\* C5: the list Flat returns has no duplicates and is, as a set, the union of
\* the results of the groups; permuting the groups or repeating one does not
\* change the set.
C5_FlatIsSet ==
    (iePc = "flat" /\ flatRet.err = "")
    => /\ \A x \in DOMAIN flatRet.list : flatRet.list[x] = 1
       /\ BagToSet(flatRet.list) =
              UNION {BagToSet(Flat(ExprOf(<<ParsedGroups[j]>>)).list) :
                         j \in 1..Len(ParsedGroups)}
       /\ \A f \in Rearrangements(Len(ParsedGroups)) :
              BagToSet(Flat(ExprOf([k \in DOMAIN f |-> ParsedGroups[f[k]]])).list)
                  = BagToSet(flatRet.list)

\* two groups that yield a common string, flattened
C5_Witness ==
    /\ iePc = "flat"
    /\ flatRet.err = ""
    /\ \E j, k \in 1..Len(ParsedGroups) :
           /\ j < k
           /\ BagToSet(Flat(ExprOf(<<ParsedGroups[j]>>)).list)
                  \cap BagToSet(Flat(ExprOf(<<ParsedGroups[k]>>)).list) # {}
           /\ BagToSet(Flat(ExprOf(<<ParsedGroups[j]>>)).list)
                  # BagToSet(Flat(ExprOf(<<ParsedGroups[k]>>)).list)

\* a script is opened by "${" and no '}' follows it
OpenAtEnd(exp) ==
    \E k \in 1..(Len(exp) - 1) :
        /\ exp[k] = Dollar
        /\ exp[k + 1] = LBrace
        /\ \A j \in (k + 1)..Len(exp) : exp[j] # RBrace

\* C6: when the input ends inside a script opened by "${", the result of
\* NewInlineExpression is a syntax error and no expression.
C6_UnclosedScriptRejected ==
    (iePc # "new" /\ OpenAtEnd(expression))
    => /\ newRet.err # NoError
       /\ newRet.expr = <<>>

ExampleTwoGroups == <<100, Dot, 116, Comma, 100, Dot, 116>>

\* C7: a '.' outside a script is refused only when the prefix of the segment
\* being accumulated already holds a '.'; d.t,d.t parses.
C7_DotPerSegment ==
    (iePc # "new")
    => /\ newRet.err.message = MsgDot
          => \E k \in DOMAIN SplitScan(expression).prefix :
                 SplitScan(expression).prefix[k] = Dot
       /\ expression = ExampleTwoGroups => newRet.err = NoError

\* the byte at the 0-based index i
ByteAt(exp, i) == exp[i + 1]

\* the byte at index i lies inside a script: a '$' before it with no '}' in
\* between (for the part of a string before its first syntax error)
InScriptAt(exp, i) ==
    LET opens  == {k \in 0..(i - 1) : ByteAt(exp, k) = Dollar}
        closes == {k \in 0..(i - 1) : ByteAt(exp, k) = RBrace}
    IN  opens # {} /\ (closes = {} \/ MaxOf(opens) > MaxOf(closes))

\* the '.' bytes of the segment that the byte at index i belongs to, before i
DotsOfSegmentBefore(exp, i) ==
    LET ends  == {k \in 0..(i - 1) :
                     \/ ByteAt(exp, k) = RBrace
                     \/ ByteAt(exp, k) = Comma /\ ~InScriptAt(exp, k)}
        start == IF ends = {} THEN -1 ELSE MaxOf(ends)
    IN  {k \in (start + 1)..(i - 1) : ByteAt(exp, k) = Dot}

\* the byte at index i is one the syntax refuses
Offending(exp, i) ==
    \/ /\ ByteAt(exp, i) = Dollar
       /\ \/ InScriptAt(exp, i)
          \/ i = Len(exp) - 1
          \/ ByteAt(exp, i + 1) # LBrace
    \/ ByteAt(exp, i) = RBrace /\ ~InScriptAt(exp, i)
    \/ ByteAt(exp, i) = Dot /\ (i = 0 \/ i = Len(exp) - 1)
    \/ /\ ByteAt(exp, i) = Dot
       /\ ~InScriptAt(exp, i)
       /\ DotsOfSegmentBefore(exp, i) # {}

SymbolMessages == {MsgDot, MsgDotEnds, MsgNoBrace, MsgDollar, MsgRBrace}

\* C8: a syntax error about '$', '}' or '.' carries the index of the
\* offending byte, which is the first such byte, and no groups are returned.
C8_ErrorIndex ==
    (iePc # "new" /\ newRet.err.message \in SymbolMessages)
    => LET i == newRet.err.index
       IN  /\ i \in 0..(Len(expression) - 1)
           /\ Offending(expression, i)
           /\ \A j \in 0..(i - 1) : ~Offending(expression, j)
           /\ newRet.err.message \in {MsgNoBrace, MsgDollar}
              => ByteAt(expression, i) = Dollar
           /\ newRet.err.message = MsgRBrace => ByteAt(expression, i) = RBrace
           /\ newRet.err.message \in {MsgDot, MsgDotEnds}
              => ByteAt(expression, i) = Dot
           /\ newRet.expr = <<>>

\* true when the mathematical sum of two non-negative int64 leaves the
\* signed 64-bit range
SumOverflows(o, c) ==
    LET s1 == o[1] + c[1]
        s2 == o[2] + c[2] + (s1 \div Limb)
        s3 == o[3] + c[3] + (s2 \div Limb)
    IN  o[4] + c[4] + (s3 \div Limb) >= HalfLimb

\* C1: for a statement with a LIMIT clause (offset o >= 0, count c, o + c in
\* range) NewLimitWriter returns no error and a limit with count o + c and no
\* offset.
C1_LimitRewritten ==
    (lwPc = "done" /\ context.HasLimit
        /\ ~SumOverflows(context.Offset, context.Count))
    => /\ lwRet.err = ""
       /\ lwRet.limit = <<[Count |-> Add64(context.Offset, context.Count),
                           Offset |-> <<>>]>>

\* C2: when offset + count exceeds the signed 64-bit range NewLimitWriter
\* returns ErrLimitTooLarge and never a limit with the wrapped sum.
C2_OverflowGuard ==
    (lwPc = "done" /\ context.HasLimit
        /\ SumOverflows(context.Offset, context.Count))
    => /\ lwRet.err = "ErrLimitTooLarge"
       /\ lwRet.limit = NoLimit
(***************************************************************************)
(* Properties of handleQuery.                                              *)
(***************************************************************************)
\* a query has been handled and none is being handled
Handled == hqCount > 0 /\ hqPc = "idle"

\* the fields of the session a SET, BEGIN, COMMIT, ROLLBACK or USE may
\* change are, now that handleQuery has returned, what they were when the
\* query began
SessionKept ==
    SetSession' = [f \in DOMAIN SetSession |-> hqBefore'.session[f]]

\* no other goroutine has called handleSetAutoCommit since the query that
\* now returns began
Undisturbed == hsOther' = hqBefore'.other

\* C9: no panic raised during handleQuery reaches the caller: handleQuery
\* returns normally, and after a panic the error returned is
\* ErrInternalServer.
C9_PanicContained ==
    /\ hqRet.panic = NoPanic
    /\ hqRaised # NoPanic => hqRet.err = ErrInternalServer

\* a panic whose value is not an error was raised after doQuery had begun
C9_Witness ==
    /\ hqRaised = "panic(string)"
    /\ hqAllowed = "yes"
    /\ hqRet.err = ErrInternalServer

\* C10: a query the namespace does not allow is not parsed, not run on the
\* fast path and not sent to a backend; handleQuery returns an error and a
\* nil result and the forbidden-SQL counter goes up by exactly one; the
\* query itself leaves the session as it was (what another goroutine's
\* handleSetAutoCommit does meanwhile is not the query's doing).
C10_BlacklistFirst ==
    [][(hqCount' = hqCount + 1 /\ hqAllowed' = "no")
       => /\ trace' = <<>>
          /\ Undisturbed => SessionKept
          /\ hqRet'.r = NilResult
          /\ hqRet'.err # NilErr
          /\ hqRet'.panic = NoPanic
          /\ forbidden' = hqBefore'.session.forbidden + 1]_vars

\* a refused query of a session in a transaction has been counted
C10_Witness ==
    /\ Handled
    /\ hqAllowed = "no"
    /\ forbidden = hqBefore.session.forbidden + 1
    /\ txConns = Slices
    /\ hqRet.err = MySQLError("ErrUnknown", "parser in blacklist")
(***************************************************************************)
(* Properties of USE and SET.                                              *)
(***************************************************************************)
\* the query handled last was a USE that reached handleUseDB
UseHandled(req, calls) ==
    /\ req.allowed = "yes"
    /\ req.stmtType = "StmtUse"
    /\ \E i \in 1..Len(calls) : calls[i] = "handleUseDB"

\* C11: the current database is always the initial one or a name the
\* namespace allows; it changes only by a USE of an allowed name, to that
\* name; a USE of the empty name or of a name that is not allowed returns an
\* error and leaves the current database as it was.
C11_UseDB ==
    [][hqCount' = hqCount + 1
       => /\ db' \in {"db1"} \cup AllowedDBs
          /\ db' # hqBefore'.session.db => /\ UseHandled(hqReq', trace')
                                   /\ db' = hqReq'.dbName
                                   /\ hqReq'.dbName \in AllowedDBs
          /\ (UseHandled(hqReq', trace') /\ hqReq'.dbName \notin AllowedDBs)
                => /\ db' = hqBefore'.session.db
                   /\ hqRet'.err # NilErr
                   /\ hqRet'.panic = NoPanic]_vars

\* on a session an earlier USE has put on db2, USE db9 was refused and the
\* session is still on db2
C11_Witness ==
    /\ Handled
    /\ UseHandled(hqReq, trace)
    /\ hqReq.dbName = "db9"
    /\ hqRet.err = MySQLError("ErrNoDB", "")
    /\ db = "db2"

\* the last assignment handled, as handleSetVariable reads it
SetName == ToLower(setReq.v.Name)

SetValue == getVariableExprResult(setReq.v.Value)

\* the part of the session a SET may change is as it was before the call
SetFrame ==
    /\ charset = setBefore.charset
    /\ collation = setBefore.collation
    /\ status = setBefore.status
    /\ txConns = setBefore.txConns
    /\ variables = setBefore.variables
    /\ generalLog = setBefore.generalLog
    /\ txRecycled = setBefore.txRecycled
    /\ db = setBefore.db

\* C12: an assignment in GLOBAL scope returns an error whatever the name
\* is, and the session (charset, collation, status bits, txConns, session
\* variables) is as it was before.
C12_GlobalRejected ==
    (setPc > 0 /\ setReq.v.IsGlobal) => (setRet # NilErr /\ SetFrame)

\* SET GLOBAL autocommit = off was refused inside a transaction that holds
\* a pinned connection and has autocommit on
C12_Witness ==
    /\ setPc > 0
    /\ setReq.v.IsGlobal
    /\ SetName = "autocommit"
    /\ SetValue = "off"
    /\ ServerStatusAutocommit \in status
    /\ txConns # {}
    /\ setRet # NilErr

\* the variables of the enumerated SET surface, by their lower-case names
EnumeratedSurface ==
    {"character_set_client", "character_set_connection",
     "character_set_results", "autocommit", "setnames", "sql_mode",
     "sql_safe_updates", "time_zone", "max_allowed_packet", "wait_timeout",
     "interactive_timeout", "net_write_timeout", "net_read_timeout",
     "sql_select_limit", "transaction", "general_log"}

\* the variables that are accepted and ignored
IgnoredVariables ==
    {"wait_timeout", "interactive_timeout", "net_write_timeout",
     "net_read_timeout", "sql_select_limit"}

\* C13: a session-scope SET of an ignored variable, or of a variable
\* outside the enumerated surface, returns nil and changes nothing of the
\* session.
C13_NoOpVariables ==
    (/\ setPc > 0
     /\ ~setReq.v.IsGlobal
     /\ SetName \in IgnoredVariables \/ SetName \notin EnumeratedSurface)
        => (setRet = NilErr /\ SetFrame)

\* SET foreign_key_checks = 1 was accepted in a transaction
C13_Witness ==
    /\ setPc > 0
    /\ ~setReq.v.IsGlobal
    /\ SetName = "foreign_key_checks"
    /\ ServerStatusInTrans \in status
    /\ txConns # {}
    /\ setRet = NilErr

\* the charset SET NAMES names
NamedCharset == IF SetValue = KeywordDefault THEN DefaultCharset ELSE SetValue

\* the collation SET NAMES names with COLLATE
NamedCollation == getVariableExprResult(setReq.v.ExtendValue[1])

\* C14: after a session-scope SET NAMES cs [COLLATE col], either the call
\* succeeded and charset is cs and collation is col (the default collation
\* of cs without COLLATE), or it failed and charset and collation are both
\* as before; it fails when col is unknown or belongs to another charset.
C14_SetNamesAtomic ==
    (setPc > 0 /\ ~setReq.v.IsGlobal /\ SetName = "setnames")
       => /\ setRet = NilErr
             => /\ charset = NamedCharset
                /\ IF setReq.v.ExtendValue = <<>>
                   THEN collation = CollationIds[CharsetsToCollationNames[charset]]
                   ELSE collation = CollationIds[NamedCollation]
          /\ setRet # NilErr
             => /\ charset = setBefore.charset
                /\ collation = setBefore.collation
          /\ (/\ setReq.v.ExtendValue # <<>>
              /\ \/ NamedCollation \notin DOMAIN CollationIds
                 \/ CollationNameToCharset[NamedCollation] # NamedCharset)
             => setRet # NilErr

\* SET NAMES utf8mb4 COLLATE utf8_bin was refused in a utf8 session
C14_Witness ==
    /\ setPc > 0
    /\ setReq.v = Assign(FALSE, "SetNAMES", "utf8mb4", <<"utf8_bin">>)
    /\ setBefore.charset = "utf8"
    /\ setRet = MySQLError("ErrUnknownCharacterSet", "utf8mb4")
    /\ charset = "utf8"

\* C15: SET autocommit with on, 1 or default leaves the autocommit bit on,
\* with off or 0 leaves it off; any other value returns ErrWrongValueForVar
\* and leaves the status bits and txConns as they were.
C15_Autocommit ==
    (setPc > 0 /\ ~setReq.v.IsGlobal /\ SetName = "autocommit")
       => CASE SetValue \in {"on", "1", "default"} ->
                 ServerStatusAutocommit \in status
            [] SetValue \in {"off", "0"} ->
                 ServerStatusAutocommit \notin status
            [] OTHER ->
                 /\ setRet = MySQLError("ErrWrongValueForVar", SetValue)
                 /\ status = setBefore.status
                 /\ txConns = setBefore.txConns

\* SET autocommit = default turned autocommit on in a session that had it
\* off
C15_Witness ==
    /\ setPc > 0
    /\ ~setReq.v.IsGlobal
    /\ SetName = "autocommit"
    /\ SetValue = "default"
    /\ ServerStatusAutocommit \notin setBefore.status
    /\ ServerStatusAutocommit \in status
(***************************************************************************)
(* Properties of prepared statements.                                      *)
(***************************************************************************)
\* the last command was a PREPARE that handed out a statement
PreparedOne == stmtOp.kind = "prepare" /\ stmtOp.err = NilErr

\* C16: the id a successful PREPARE hands out is greater than every id the
\* session handed out before, and no statement of that id is in the
\* prepared table when it is stored.
C16_MonotoneIds ==
    PreparedOne
       => /\ \/ stmtBefore.lastID = NoID
             \/ Less32(stmtBefore.lastID, stmtOp.stmt[1].id)
          /\ stmtOp.stmt[1].id \notin DOMAIN stmtBefore.stmts

\* the ids the CLOSE payloads of the model carry
PayloadIds ==
    {U32(0), U32(1), U32(256), MaxUint32Minus(0), MaxUint32Minus(1)}

\* the id whose little-endian bytes open the payload
ClosedId(data) == CHOOSE id \in PayloadIds : PutUint32(id) = SubSeq(data, 1, 4)

\* C17: a CLOSE returns nil and leaves the next-id counter alone; with a
\* payload of fewer than 4 bytes the prepared table is unchanged, otherwise
\* the table loses the entry of the id in the payload, if it had one, and
\* nothing else.
C17_CloseIdempotent ==
    stmtOp.kind = "close"
       => /\ stmtOp.err = NilErr
          /\ stmtID = stmtBefore.stmtID
          /\ IF Len(stmtOp.data) < 4
             THEN stmts = stmtBefore.stmts
             ELSE /\ DOMAIN stmts
                       = DOMAIN stmtBefore.stmts \ {ClosedId(stmtOp.data)}
                  /\ \A k \in DOMAIN stmts : stmts[k] = stmtBefore.stmts[k]

\* statement 1 was closed while statement 0 stays prepared
C17_Witness ==
    /\ stmtOp.kind = "close"
    /\ stmtOp.data = PutUint32(U32(1))
    /\ U32(1) \in DOMAIN stmtBefore.stmts
    /\ U32(1) \notin DOMAIN stmts
    /\ U32(0) \in DOMAIN stmts

(***************************************************************************)
(* Properties of handleFieldList.                                          *)
(***************************************************************************)
\* the COM_FIELD_LIST reached getBackendConn and got a connection
Acquired(req) ==
    /\ IndexByte(req.data) >= 0
    /\ req.rule = "ok"
    /\ req.acquire = "ok"

\* C18: a handleFieldList that acquired a connection has handed exactly
\* that connection to recycleBackendConn, once, when it ends, however it
\* ends; one that did not acquire a connection recycles nothing.
C18_RecycledOnce ==
    [][flPc' = flPc + 1
       => /\ IF Acquired(flReq')
             THEN /\ Len(conns') = Len(conns) + 1
                  /\ conns'[Len(conns')] = 1
             ELSE Len(conns') = Len(conns)
          /\ \A n \in 1..Len(conns) : conns'[n] = conns[n]]_vars

\* the second connection acquired was recycled although FieldList panicked
C18_Witness ==
    /\ Acquired(flReq)
    /\ flReq.fieldList \in PanicValues
    /\ flRet.panic = flReq.fieldList
    /\ Len(conns) = 2
    /\ conns[2] = 1

(***************************************************************************)
(* Properties of the errors handleQuery returns.                           *)
(***************************************************************************)
\* the backend was asked on the plan path or by handleShow
BackendAsked(calls) ==
    \/ \E i \in 1..Len(calls) : calls[i] = "ExecuteIn"
    \/ /\ \E i \in 1..Len(calls) : calls[i] = "handleShow"
       /\ \E i \in 1..Len(calls) : calls[i] \in {"ExecuteSQL", "executeSQLNoData"}

\* C19: when the backend answers a statement with a MySQL error, on the
\* plan path or on a path of handleShow, and nothing panics, handleQuery
\* returns that same error.
C19_BackendErrorPreserved ==
    (/\ Handled
     /\ hqReq.allowed = "yes"
     /\ BackendAsked(trace)
     /\ hqReq.backend = "err"
     /\ hqRaised = NoPanic)
        => hqRet.err = BackendError

\* the query handled last was a write statement of a read-only user
ReadUserWrites(req) ==
    /\ req.allowed = "yes"
    /\ req.readUser
    /\ req.stmtType = "StmtInsert"

\* C20: a write statement of a read-only user is answered with the MySQL
\* error 1290 and a nil result, and nothing was parsed, planned, run on the
\* fast path or sent to a backend for it.
C20_ReadOnlyRejected ==
    (Handled /\ ReadUserWrites(hqReq))
       => /\ hqRet.err.kind = "mysql"
          /\ hqRet.err.code = "1290"
          /\ hqRet.r = NilResult
          /\ trace = <<>>

\* the pinned connections SET autocommit found, and those of them whose
\* SetAutoCommit(1) failed
Pinned == setBefore.txConns

FailedPinned == setReq.failing \cap setBefore.txConns

\* C28: after handleSetAutoCommit(true) returned, with or without an
\* error, txConns is empty, the in-transaction bit is clear, the autocommit
\* bit is set and every connection that was pinned has been recycled
\* exactly once, those whose SetAutoCommit(1) failed included; the call
\* returns an error if any SetAutoCommit(1) failed.
C28_AutocommitOnReleases ==
    (setPc > 0 /\ TurnsAutocommitOn(setReq.v))
       => /\ txConns = {}
          /\ ServerStatusInTrans \notin status
          /\ ServerStatusAutocommit \in status
          /\ \A s \in Slices :
                txRecycled[s] = setBefore.txRecycled[s]
                                  + (IF s \in Pinned THEN 1 ELSE 0)
          /\ FailedPinned # {} => setRet # NilErr

\* SET autocommit = 1 met two pinned connections in a transaction, one of
\* them failed SetAutoCommit(1), and both were recycled
C28_Witness ==
    /\ setPc > 0
    /\ TurnsAutocommitOn(setReq.v)
    /\ Cardinality(Pinned) = 2
    /\ Cardinality(FailedPinned) = 1
    /\ ServerStatusInTrans \in setBefore.status
    /\ setRet # NilErr
    /\ txConns = {}
    /\ \A s \in Pinned : txRecycled[s] = setBefore.txRecycled[s] + 1

\* C25: in session scope, character_set_client = null and
\* character_set_connection = null return an error; character_set_results
\* = null returns nil and leaves charset and collation as they were.
C25_NullOnlyForResults ==
    (setPc > 0 /\ ~setReq.v.IsGlobal /\ SetValue = "null")
       => /\ SetName \in {"character_set_client", "character_set_connection"}
             => setRet # NilErr
          /\ SetName = "character_set_results"
             => (setRet = NilErr /\ SetFrame)

\* the five symbols of the inline-expression syntax
Symbols == {Dollar, LBrace, RBrace, Comma, Dot}

\* no byte of s is one of the symbols
SymbolFree(s) == \A k \in 1..Len(s) : s[k] \notin Symbols

\* the segments of a group that is the literal s and nothing else
LiteralSegments(s) ==
    IF TrimSpace(s) = <<>>
    THEN <<>>
    ELSE <<[prefix |-> TrimSpace(s), rawScript |-> <<>>, script |-> <<>>]>>

\* C26: a character other than $ { } , . is appended unchanged to the
\* accumulator, a non-ASCII character included: it is never taken for the
\* symbol that shares its low 8 bits and never cut down to one byte.  So
\* an expression without a symbol parses to one group whose only segment
\* has the expression, trimmed, as its prefix.
C26_OtherCharsUnchanged ==
    (iePc \in {"parsed", "error", "flat"} /\ SymbolFree(expression))
       => /\ newRet.err = NoError
          /\ newRet.expr =
                <<[expression |-> expression,
                   segments   |-> <<[segments |-> LiteralSegments(expression)]>>]>>

\* the last COM_FIELD_LIST met a runtime panic: a payload without a NUL
\* byte, or a panic value raised while the routing rule was looked up
FieldListPanicked ==
    IndexByte(flReq.data) < 0 \/ flReq.rule \in PanicValues

\* C27: a runtime panic in the handling of COM_FIELD_LIST is caught by a
\* recovery barrier and comes out as ErrInternalServer; handleFieldList
\* never lets a panic through to its caller.
C27_FieldListPanicContained ==
    flPc > 0
       => /\ flRet.panic = NoPanic
          /\ FieldListPanicked => flRet.err = ErrInternalServer

\* C29: NewLimitWriter returns the error "there is none limit in plain
\* context" if and only if the statement has no LIMIT clause, and returns
\* a limit and no error exactly when a LIMIT clause exists.
C29_ErrorIffNoLimit ==
    lwPc = "done"
       => /\ lwRet.err = ErrNoneLimit <=> ~context.HasLimit
          /\ (lwRet.limit # NoLimit /\ lwRet.err = "") <=> context.HasLimit

\* a statement of the fast path that the parser refuses
Unparsed(req) ==
    /\ req.allowed = "yes"
    /\ CanHandleWithoutPlan(req.stmtType)
    /\ ~req.parses

C21_PingAfterShutdown ==
    [][/\ listener.shutdown => listener'.shutdown
       /\ (lnPc' = lnPc + 1 /\ wire'.cmd = "ping")
             => wire'.sees = IF listener.shutdown
                             THEN ErrServerShutdown
                             ELSE OKPacket]_vars

\* a session that was connected before the shutdown pinged after it and
\* got error 1053
C21_Witness ==
    /\ wire.cmd = "ping"
    /\ wire.before.shutdown
    /\ wire.conn \in listener.sessions
    /\ wire.sees = SQLError(1053, "08S01", "Server shutdown in progress")

\* C22: the refusal counter changes only by the first Shutdown, never
\* before it and never again by a later Ping, Shutdown or Close; a Shutdown
\* that one connected session observes raises it by exactly one.
C22_RefusedOncePerShutdown ==
    [][/\ listener'.refuse # listener.refuse
             => (wire'.cmd = "shutdown" /\ ~listener.shutdown)
       /\ (/\ lnPc' = lnPc + 1
           /\ wire'.cmd = "shutdown"
           /\ ~listener.shutdown
           /\ Cardinality(listener.sessions) = 1)
             => listener'.refuse = listener.refuse + 1]_vars

\* with one session connected, Shutdown was called a second time and the
\* counter still stands at one
C22_Witness ==
    /\ wire.cmd = "shutdown"
    /\ wire.before.shutdown
    /\ Cardinality(listener.sessions) = 1
    /\ wire.before.refuse = 1
    /\ listener.refuse = 1

\* the last step was a COM_QUERY whose handler returned an error, on a
\* listener that was not shut down
HandlerFailed ==
    wire.cmd = "query" /\ wire.h.err /\ ~wire.before.shutdown

\* C23: when the handler returns an error after result bytes went out the
\* client sees error 2013, lost connection, and the connection is gone, not
\* the code of the handler; when it returns the error before any result
\* byte the client gets the error of the handler as an error packet and the
\* connection stays.
C23_ErrorAfterSend ==
    HandlerFailed
       => IF wire.h.sent
          THEN /\ wire.sees = ErrLostConnection
               /\ wire.sees.num = 2013
               /\ wire.conn \notin listener.sessions
          ELSE /\ wire.sees = HandlerError
               /\ wire.conn \in listener.sessions

\* the handler failed after it had sent result bytes: the client saw 2013
\* and lost the connection while the other session stayed
C23_Witness ==
    /\ HandlerFailed
    /\ wire.h.sent
    /\ wire.sees.num = 2013
    /\ wire.conn \in wire.before.sessions
    /\ wire.conn \notin listener.sessions
    /\ listener.sessions # {}

\* the declared total length of the blob handed to parseConnAttrs
DeclaredLength == Len(encodePairs(attrIn.pairs, 1)) + attrIn.skew

\* the bytes the total length takes at the head of the blob
HeaderSize == Len(lenEncInt(DeclaredLength, attrIn.wide))

\* the pair i of the blob is not overwritten by a later pair with its key
LastOfKey(i) ==
    \A j \in (i + 1)..Len(attrIn.pairs) : attrIn.pairs[j][1] # attrIn.pairs[i][1]

\* C24: for a well-formed blob at position p parseConnAttrs returns no
\* error, every key/value pair of the blob and nothing else, and the
\* position p + header size + declared total length; the bytes after the
\* declared length do not matter.
C24_WellFormedAttrs ==
    (attrPc = "done" /\ attrIn.skew = 0)
       => /\ attrRet.err = NilErr
          /\ attrRet.pos = Len(attrIn.lead) + HeaderSize + DeclaredLength
          /\ \A i \in 1..Len(attrIn.pairs) :
                LastOfKey(i) => attrIn.pairs[i] \in attrRet.attrs
          /\ \A a \in attrRet.attrs :
                \E i \in 1..Len(attrIn.pairs) : attrIn.pairs[i] = a
          /\ attrRet = parseConnAttrs(Blob([attrIn EXCEPT !.trail = <<>>]),
                                      Len(attrIn.lead))

\* a blob of two pairs with a three-byte header, at position 1 and followed
\* by one more byte, was parsed to its two attributes
C24_Witness ==
    /\ attrPc = "done"
    /\ attrIn.skew = 0
    /\ attrIn.wide
    /\ attrIn.lead = <<7>>
    /\ attrIn.trail = <<0>>
    /\ attrIn.pairs = << <<<<97>>, <<98, 99>>>>, <<<<98, 99>>, <<>>>> >>
    /\ attrRet = [attrs |-> {<<<<97>>, <<98, 99>>>>, <<<<98, 99>>, <<>>>>},
                  pos   |-> 13,
                  err   |-> NilErr]

\* C33: handleQuery never returns both a result and an error: when the
\* error it returns is not nil (the blacklist, a failure of doQuery, or a
\* panic turned into ErrInternalServer, one raised after doQuery returned
\* a result included) the result it returns is nil.
C33_ResultOrError ==
    (Handled /\ hqRet.err # NilErr) => hqRet.r = NilResult

\* the collation ids that belong to the charset cs
CollationsOf(cs) ==
    {CollationIds[n] : n \in {c \in DOMAIN CollationIds :
                                 /\ c \in DOMAIN CollationNameToCharset
                                 /\ CollationNameToCharset[c] = cs}}

\* C31: after any sequence of SET commands, failed ones included, the
\* collation of the session is a known collation id that belongs to the
\* charset of the session, whatever the lookup tables hold, a charset whose
\* default collation has no entry in the table of collation ids included.
C31_CollationOfCharset == collation \in CollationsOf(charset)

\* C32: when handleSet returns an error for a SET statement of one or more
\* assignments, charset, collation, status bits, txConns and the session
\* variables are what they were before the statement: none of the
\* assignments is applied, not those listed before the failing one and not
\* a part of the failing one.
C32_FailedSetAppliesNothing ==
    (hsPc = "done" /\ hsOther = 0 /\ setRet # NilErr)
       => /\ charset = setBefore.charset
          /\ collation = setBefore.collation
          /\ status = setBefore.status
          /\ txConns = setBefore.txConns
          /\ variables = setBefore.variables

\* the goroutine g is between se.txLock.Lock() and the deferred Unlock()
InHandleSetAutoCommit(g) == acPc[g] \in {"status", "range", "clear", "unlock"}

\* C34: two concurrent calls of handleSetAutoCommit on one session exclude
\* each other under txLock: in every interleaving a pinned connection is
\* recycled at most once, no call ranges over txConns while the other is
\* past its Lock (and so none while the other replaces the map), and after
\* both have returned with autocommit = true txConns is empty.
C34_TxLockExclusive ==
    /\ \A s \in Slices : txRecycled[s] <= 1
    /\ \A g \in Goroutines :
          \A h \in Goroutines \ {g} :
             ~(InHandleSetAutoCommit(g) /\ InHandleSetAutoCommit(h))
    /\ (\A g \in Goroutines : acPc[g] = "done" /\ acArg[g]) => txConns = {}

\* both goroutines called with autocommit = true on a session with two
\* pinned connections and have returned: each connection was recycled once,
\* the second call found nothing to visit, and one call returned an error
C34_Witness ==
    /\ \A g \in Goroutines : acPc[g] = "done" /\ acArg[g]
    /\ \A s \in Slices : txRecycled[s] = 1
    /\ txConns = {}
    /\ txLock = "free"
    /\ \E g \in Goroutines : acRet[g] # NilErr
    /\ \E g \in Goroutines : acRet[g] = NilErr
====
